---- MODULE Spec2Model ----
(***************************************************************************)
(* zod-request: validation of wire-level Request, Headers and              *)
(* URLSearchParams values against declared zod schemas.                    *)
(*                                                                         *)
(* JavaScript strings are TLA+ strings; every other JavaScript value is a  *)
(* record tagged by its type in field t, so that a string, an array, an    *)
(* object, null and undefined are never confused.                          *)
(***************************************************************************)
EXTENDS Integers, Sequences, FiniteSets, TLC

VARIABLES
    call,       \* the direct call of an extractor under examination: its arguments
    ret,        \* what that call returned or threw ("pending" before it ran)
    schemas,    \* the validator configuration closed over by bodySchema / requestSchema
    requests,   \* the Request objects of the host: request id -> request record
    runs        \* the validations in flight: run id -> the locals of one parseAsync call

vars == <<call, ret, schemas, requests, runs>>

-----------------------------------------------------------------------------
(* Bounds of the model *)

\* longest query string / header list, in entries
MaxParams == 3

-----------------------------------------------------------------------------
(* JavaScript values *)

Undefined == [t |-> "undefined"]
Null == [t |-> "null"]
Str(s) == [t |-> "string", v |-> s]
Arr(q) == [t |-> "array", v |-> q]
Obj(f) == [t |-> "object", v |-> f]

EmptyRecord == [k \in {} |-> Undefined]

\* obj[key] = val on a JavaScript object
Put(obj, key, val) == [k \in (DOMAIN obj) \cup {key} |-> IF k = key THEN val ELSE obj[k]]

\* the set of values of a sequence
Range(q) == {q[i] : i \in 1..Len(q)}

\* all sequences over S of length at most n
SeqUpTo(S, n) == UNION {[1..m -> S] : m \in 0..n}

-----------------------------------------------------------------------------
(* String.prototype.includes / startsWith / replace *)

StringIndexOf(str, pattern) ==
    LET hits == {i \in 1..(Len(str) - Len(pattern) + 1) :
                    SubSeq(str, i, i + Len(pattern) - 1) = pattern}
    IN IF hits = {} THEN 0 ELSE CHOOSE i \in hits : \A j \in hits : i <= j

StringIncludes(str, pattern) == StringIndexOf(str, pattern) # 0

StringStartsWith(str, pattern) ==
    Len(str) >= Len(pattern) /\ SubSeq(str, 1, Len(pattern)) = pattern

\* The replacement text of String.prototype.replace with a string pattern (no
\* captures): $$ is "$", $& the matched text, $` the text before the match,
\* $' the text after it; any other "$" stands for itself.
RECURSIVE GetSubstitution(_, _, _, _)
GetSubstitution(matched, before, after, replacement) ==
    IF Len(replacement) = 0 THEN ""
    ELSE LET c1 == SubSeq(replacement, 1, 1)
             rest1 == SubSeq(replacement, 2, Len(replacement))
         IN IF c1 = "$" /\ Len(replacement) >= 2
            THEN LET c2 == SubSeq(replacement, 2, 2)
                     rest2 == SubSeq(replacement, 3, Len(replacement))
                 IN CASE c2 = "$" -> "$" \o GetSubstitution(matched, before, after, rest2)
                      [] c2 = "&" -> matched \o GetSubstitution(matched, before, after, rest2)
                      [] c2 = "`" -> before \o GetSubstitution(matched, before, after, rest2)
                      [] c2 = "'" -> after \o GetSubstitution(matched, before, after, rest2)
                      [] OTHER -> "$" \o GetSubstitution(matched, before, after, rest1)
            ELSE c1 \o GetSubstitution(matched, before, after, rest1)

\* str.replace(pattern, replacement): the first occurrence only
StringReplace(str, pattern, replacement) ==
    LET pos == StringIndexOf(str, pattern)
    IN IF pos = 0 THEN str
       ELSE LET before == SubSeq(str, 1, pos - 1)
                after == SubSeq(str, pos + Len(pattern), Len(str))
            IN before \o GetSubstitution(pattern, before, after, replacement) \o after

-----------------------------------------------------------------------------
(* constants.ts *)

ERROR_EXPECTED_REQUEST == "Expected Request"
ERROR_EXPECTED_HEADERS == "Expected Headers"
ERROR_EXPECTED_URL_SEARCH_PARAMS == "Expected URLSearchParams or string"
ERROR_UNABLE_TO_EXTRACT_BASE_SCHEMA ==
    "Unable to extract base schema from preprocessed {name} schema. This may be a Zod v4 compatibility issue."
ERROR_MULTIPLE_VALUES_SINGLE_SCHEMA ==
    "Multiple values found for parameter \"{key}\" but schema expects a single value. Use an array schema (e.g., z.array(z.string())) to accept multiple values."

-----------------------------------------------------------------------------
(* The schemas of the validation engine that the library is handed *)

ZodString == [type |-> "string"]
ZodArray == [type |-> "array"]                            \* z.array(z.string())
ZodOptional(inner) == [type |-> "optional", innerType |-> inner]
ZodUnknown == [type |-> "unknown"]
ZodNullable(inner) == [type |-> "nullable", innerType |-> inner]
ZodInstanceof(class) == [type |-> "instanceof", class |-> class]
ZodLiteral(value) == [type |-> "literal", value |-> value]
\* Faulty variant: the enumeration accepts every string
ZodEnum_AnyString(values) == [type |-> "string"]

ZodEnum(values) == [type |-> "enum", values |-> values]
\* z.object(shape): shape is the list of its <<key, schema>> entries in
\* declaration order (the order "for (key in shape)" visits them)
ZodObject(shape) == [type |-> "object", shape |-> shape]

\* z.looseObject(shape): the keys the shape does not declare are kept
ZodLooseObject(shape) == [type |-> "object", shape |-> shape, catchall |-> ZodUnknown]

Entry(key, schema) == [key |-> key, schema |-> schema]

\* schema.transform(fn): a pipe of the schema into the transform
ZodTransform(inner, fn) ==
    [type |-> "pipe", in |-> inner, out |-> [type |-> "transform", fn |-> fn]]

\* schema.refine(check): the schema with a check added; async tells whether
\* the check returns a promise
ZodRefine(inner, check, async) ==
    [type |-> "refine", innerType |-> inner, check |-> check, async |-> async]
ShapeKeys(shape) == {shape[i].key : i \in 1..Len(shape)}

\* new z.ZodError(issues) and new Error(message)
ZodError(issues) == [name |-> "ZodError", issues |-> issues]
Error(message) == [name |-> "Error", message |-> message]

Ok(value) == [ok |-> TRUE, value |-> value]
Fail(error) == [ok |-> FALSE, error |-> error]

Digits == "0123456789"
UpperCaseLetters == "ABCDEFGHIJKLMNOPQRSTUVWXYZ"
LowerCaseLetters == "abcdefghijklmnopqrstuvwxyz"

NaN == [t |-> "NaN"]

\* Number(str) for a string of decimal digits; NaN for the other non-empty
\* strings of the model
NumberOf(str) ==
    LET digit(i) == StringIndexOf(Digits, SubSeq(str, i, i)) - 1
        value[i \in 0..Len(str)] == IF i = 0 THEN 0 ELSE 10 * value[i - 1] + digit(i)
    IN IF \A i \in 1..Len(str) : digit(i) >= 0
       THEN [t |-> "number", v |-> value[Len(str)]]
       ELSE NaN

\* str.toUpperCase() / str.toLowerCase() on ASCII
MapLetters(str, from, to) ==
    LET char(i) == SubSeq(str, i, i)
        mapped(i) == IF StringIndexOf(from, char(i)) > 0
                     THEN SubSeq(to, StringIndexOf(from, char(i)), StringIndexOf(from, char(i)))
                     ELSE char(i)
        out[i \in 0..Len(str)] == IF i = 0 THEN "" ELSE out[i - 1] \o mapped(i)
    IN out[Len(str)]

\* the functions handed to transform in the tests
ApplyTransform(fn, value) ==
    CASE fn = "Number" -> NumberOf(value.v)
      [] fn = "toUpperCase" -> Str(MapLetters(value.v, LowerCaseLetters, UpperCaseLetters))
      [] fn = "toLowerCase" -> Str(MapLetters(value.v, UpperCaseLetters, LowerCaseLetters))

\* the checks handed to refine
ApplyCheck(check, value) ==
    CASE check = "nonEmpty" -> value.t = "string" /\ value.v # ""
      [] check = "never" -> FALSE

InvalidIssue(expected) == [code |-> "invalid", path |-> <<>>, message |-> "Invalid input: expected " \o expected]

\* schema.parse(value) / schema.parseAsync(value): the validated value or the
\* ZodError listing every issue, each with the path of the offending field.
\* z.object copies the declared keys only: a key the shape does not declare
\* is stripped, and a declared key is copied when the input has it or when
\* its validated value is defined.
RECURSIVE ZodIssues(_, _)
RECURSIVE ZodOutput(_, _)
ZodIssues(schema, value) ==
    CASE schema.type = "string" ->
            IF value.t = "string" THEN <<>> ELSE <<InvalidIssue("string")>>
      [] schema.type = "array" ->
            IF value.t = "array" THEN <<>> ELSE <<InvalidIssue("array")>>
      [] schema.type = "optional" ->
            IF value = Undefined THEN <<>> ELSE ZodIssues(schema.innerType, value)
      [] schema.type = "nullable" ->
            IF value = Null THEN <<>> ELSE ZodIssues(schema.innerType, value)
      [] schema.type = "instanceof" ->
            IF value.t = schema.class THEN <<>> ELSE <<InvalidIssue(schema.class)>>
      [] schema.type = "unknown" -> <<>>
      [] schema.type = "literal" ->
            IF value = Str(schema.value) THEN <<>> ELSE <<InvalidIssue("literal")>>
      [] schema.type = "enum" ->
            IF value.t = "string" /\ value.v \in Range(schema.values)
            THEN <<>> ELSE <<InvalidIssue("enum")>>
      [] schema.type = "pipe" -> ZodIssues(schema.in, value)
      [] schema.type = "refine" ->
            IF ZodIssues(schema.innerType, value) # <<>>
            THEN ZodIssues(schema.innerType, value)
            ELSE IF ApplyCheck(schema.check, ZodOutput(schema.innerType, value))
            THEN <<>>
            ELSE <<[code |-> "custom", path |-> <<>>, message |-> "Invalid input"]>>
      [] schema.type = "object" ->
            IF value.t # "object" THEN <<InvalidIssue("object")>>
            ELSE LET field(i) == IF schema.shape[i].key \in DOMAIN value.v
                                 THEN value.v[schema.shape[i].key] ELSE Undefined
                     under(i) == LET inner == ZodIssues(schema.shape[i].schema, field(i))
                                 IN [j \in 1..Len(inner) |->
                                        [inner[j] EXCEPT !.path = <<schema.shape[i].key>> \o @]]
                     collect[i \in 0..Len(schema.shape)] ==
                         IF i = 0 THEN <<>> ELSE collect[i - 1] \o under(i)
                 IN collect[Len(schema.shape)]

ZodOutput(schema, value) ==
    CASE schema.type = "object" ->
            LET field(key) == IF key \in DOMAIN value.v THEN value.v[key] ELSE Undefined
                schemaOf(key) == (CHOOSE i \in 1..Len(schema.shape) :
                                     schema.shape[i].key = key)
                out(key) == ZodOutput(schema.shape[schemaOf(key)].schema, field(key))
                kept == {key \in ShapeKeys(schema.shape) :
                            key \in DOMAIN value.v \/ out(key) # Undefined}
                extra == IF "catchall" \in DOMAIN schema
                         THEN DOMAIN value.v \ ShapeKeys(schema.shape) ELSE {}
            IN Obj([key \in kept \cup extra |->
                       IF key \in kept THEN out(key) ELSE value.v[key]])
      [] schema.type = "optional" ->
            IF value = Undefined THEN Undefined ELSE ZodOutput(schema.innerType, value)
      [] schema.type = "nullable" ->
            IF value = Null THEN Null ELSE ZodOutput(schema.innerType, value)
      [] schema.type = "pipe" ->
            ApplyTransform(schema.out.fn, ZodOutput(schema.in, value))
      [] schema.type = "refine" -> ZodOutput(schema.innerType, value)
      [] OTHER -> value

ZodParse(schema, value) ==
    LET issues == ZodIssues(schema, value)
    IN IF issues = <<>> THEN Ok(ZodOutput(schema, value)) ELSE Fail(ZodError(issues))

\* whether validating value runs a check that returns a promise: a check is
\* run when the rule it is attached to has accepted the value
RECURSIVE ZodAsyncReached(_, _)
ZodAsyncReached(schema, value) ==
    CASE schema.type = "refine" ->
            \/ ZodAsyncReached(schema.innerType, value)
            \/ ZodIssues(schema.innerType, value) = <<>> /\ schema.async
      [] schema.type = "optional" ->
            value # Undefined /\ ZodAsyncReached(schema.innerType, value)
      [] schema.type = "nullable" ->
            value # Null /\ ZodAsyncReached(schema.innerType, value)
      [] schema.type = "pipe" -> ZodAsyncReached(schema.in, value)
      [] schema.type = "object" ->
            /\ value.t = "object"
            /\ \E n \in 1..Len(schema.shape) :
                  ZodAsyncReached(schema.shape[n].schema,
                                  IF schema.shape[n].key \in DOMAIN value.v
                                  THEN value.v[schema.shape[n].key] ELSE Undefined)
      [] OTHER -> FALSE

ZodAsyncError ==
    [name |-> "Error",
     message |-> "Encountered Promise during synchronous parse. Use .parseAsync() instead."]

\* schema.parse(value): the synchronous parse throws when a check returns a
\* promise
ZodParseSync(schema, value) ==
    IF ZodAsyncReached(schema, value) THEN Fail(ZodAsyncError) ELSE ZodParse(schema, value)

-----------------------------------------------------------------------------
(* utils.ts *)

\* Faulty variant: the rule is unwrapped before its kind is looked at
isArraySchema_Unwrapping(fieldSchema) ==
    IF fieldSchema = Undefined THEN FALSE
    ELSE IF fieldSchema.type \in {"optional", "nullable"} THEN fieldSchema.innerType.type = "array"
    ELSE fieldSchema.type = "array"

isArraySchema(fieldSchema) ==
    IF fieldSchema = Undefined THEN FALSE
    ELSE fieldSchema.type = "array"

\* The base schema of a preprocessed schema (def.out), when it is an object
extractBaseSchema(preprocessedSchema) ==
    IF "out" \in DOMAIN preprocessedSchema /\ preprocessedSchema.out.type = "object"
    THEN preprocessedSchema.out
    ELSE Undefined

\* A query source: URLSearchParams, or a duck-typed object with get and
\* possibly getAll. kind is "URLSearchParams", "getAll" or "get"; entries is
\* the list of <<key, value>> pairs it holds, in order.
ParamsGetAll(params, key) ==
    LET idx == {i \in 1..Len(params.entries) : params.entries[i][1] = key}
        nth[n \in 0..Len(params.entries)] ==
            IF n = 0 THEN <<>>
            ELSE IF n \in idx THEN nth[n - 1] \o <<params.entries[n][2]>> ELSE nth[n - 1]
    IN nth[Len(params.entries)]

ParamsGet(params, key) ==
    LET all == ParamsGetAll(params, key)
    IN IF all = <<>> THEN Null ELSE Str(all[1])

\* utils.ts:57-66: all the values of key
AllValues(params, key) ==
    IF params.kind = "URLSearchParams" THEN ParamsGetAll(params, key)
    ELSE IF params.kind = "getAll" THEN ParamsGetAll(params, key)
    ELSE LET value == ParamsGet(params, key)
         IN IF value # Null THEN <<value.v>> ELSE <<>>

MultipleValuesError(key) ==
    ZodError(<<[code |-> "custom",
                path |-> <<key>>,
                message |-> StringReplace(ERROR_MULTIPLE_VALUES_SINGLE_SCHEMA, "{key}", key)]>>)

\* Faulty variant: an array rule is given the first value, like a scalar rule
ExtractedValue_FirstOnly(isArray, allValues) ==
    IF Len(allValues) > 0 THEN Str(allValues[1]) ELSE Undefined

\* utils.ts:80-85: the value a key is given
ExtractedValue(isArray, allValues) ==
    IF isArray
    THEN (IF Len(allValues) > 0 THEN Arr(allValues) ELSE Undefined)
    ELSE (IF Len(allValues) > 0 THEN Str(allValues[1]) ELSE Undefined)

\* Faulty variant: the loop visits the keys of the wire source instead
ExtractionKeys_OfSource(source, shape) ==
    [i \in 1..Len(source.entries) |-> source.entries[i][1]]

\* utils.ts:50: the keys the loop visits
ExtractionKeys(source, shape) == [i \in 1..Len(shape) |-> shape[i].key]

\* extractSearchParamsObject(params, shape): Ok(obj) or Fail(ZodError)
extractSearchParamsObject(params, shape) ==
    LET keys == ExtractionKeys(params, shape)
        schemaOf(key) == IF \E i \in 1..Len(shape) : shape[i].key = key
                         THEN shape[CHOOSE i \in 1..Len(shape) : shape[i].key = key].schema
                         ELSE Undefined
        loop[i \in 0..Len(keys)] ==
            IF i = 0 THEN Ok(EmptyRecord)
            ELSE LET key == keys[i]
                     fieldSchema == schemaOf(key)
                     isArray == isArraySchema(fieldSchema)
                     allValues == AllValues(params, key)
                 IN IF ~loop[i - 1].ok THEN loop[i - 1]
                    ELSE IF fieldSchema = Undefined THEN loop[i - 1]
                    ELSE IF Len(allValues) > 1 /\ ~isArray THEN Fail(MultipleValuesError(key))
                    ELSE Ok(Put(loop[i - 1].value, key, ExtractedValue(isArray, allValues)))
    IN loop[Len(keys)]

\* Headers.get(name): the values of the header, joined by ", ", or null.
\* headers.entries is the list of <<name, value>> pairs of the store; kind is
\* "Headers" or, for a duck-typed object, "get".
RECURSIVE JoinStrings(_, _)
JoinStrings(q, sep) ==
    IF Len(q) = 0 THEN ""
    ELSE IF Len(q) = 1 THEN q[1]
    ELSE q[1] \o sep \o JoinStrings(Tail(q), sep)

HeadersGet(headers, key) ==
    LET all == ParamsGetAll(headers, key)
    IN IF all = <<>> THEN Null
       ELSE IF headers.kind = "Headers" THEN Str(JoinStrings(all, ", "))
       ELSE Str(all[1])

\* extractHeadersObject(headers, shape): the map itself (it never throws)
extractHeadersObject(headers, shape) ==
    LET keys == ExtractionKeys(headers, shape)
        loop[i \in 0..Len(keys)] ==
            IF i = 0 THEN EmptyRecord
            ELSE LET value == HeadersGet(headers, keys[i])
                 IN Put(loop[i - 1], keys[i], IF value = Null THEN Undefined ELSE value)
    IN loop[Len(keys)]

-----------------------------------------------------------------------------
(* Direct calls of the extractors (utils.test.ts) *)

WireKeys == {"tag", "$&", "extra"}
DeclaredKeys == {"tag", "$&"}
WireValues == {"a", "b"}

FieldSchemas == {ZodString, ZodArray, ZodOptional(ZodString), ZodOptional(ZodArray),
                 ZodNullable(ZodArray)}

\* the shapes over the declared keys: entries in any order, no key twice
ShapesOver(keys, fieldSchemas) ==
    {s \in SeqUpTo({Entry(k, f) : k \in keys, f \in fieldSchemas}, Cardinality(keys)) :
        \A i, j \in 1..Len(s) : i # j => s[i].key # s[j].key}

RawShapes == ShapesOver(DeclaredKeys, FieldSchemas \cup {Undefined})

WireEntries == SeqUpTo(WireKeys \X WireValues, MaxParams)

ParamSources == {[kind |-> k, entries |-> e] :
                    k \in {"URLSearchParams", "getAll", "get"}, e \in WireEntries}

HeaderSources == {[kind |-> k, entries |-> e] : k \in {"Headers", "get"}, e \in WireEntries}
Pending == [pending |-> TRUE]
NoCall == [fn |-> "none"]

CallExtractSearchParamsObject ==
    /\ call.fn = "extractSearchParamsObject"
    /\ ret = Pending
    /\ ret' = extractSearchParamsObject(call.source, call.shape)
    /\ UNCHANGED <<call, schemas, requests, runs>>

CallExtractHeadersObject ==
    /\ call.fn = "extractHeadersObject"
    /\ ret = Pending
    /\ ret' = Ok(extractHeadersObject(call.source, call.shape))
    /\ UNCHANGED <<call, schemas, requests, runs>>

InitExtract ==
    /\ \/ \E p \in ParamSources, s \in RawShapes :
            call = [fn |-> "extractSearchParamsObject", source |-> p, shape |-> s]
       \/ \E h \in HeaderSources, s \in RawShapes :
            call = [fn |-> "extractHeadersObject", source |-> h, shape |-> s]
    /\ ret = Pending
    /\ schemas = EmptyRecord
    /\ requests = <<>>
    /\ runs = <<>>

NextExtract == CallExtractSearchParamsObject \/ CallExtractHeadersObject

SpecExtract == InitExtract /\ [][NextExtract]_vars

-----------------------------------------------------------------------------
(* The host runtime: URLSearchParams, Request, its body stream and decodes *)

\* the pieces of str between occurrences of the one-character separator sep
RECURSIVE StringSplit(_, _)
StringSplit(str, sep) ==
    LET pos == StringIndexOf(str, sep)
    IN IF pos = 0 THEN <<str>>
       ELSE <<SubSeq(str, 1, pos - 1)>> \o StringSplit(SubSeq(str, pos + 1, Len(str)), sep)

\* application/x-www-form-urlencoded decoding of one name or value: "+" is a
\* space, %24 is "$", %26 is "&" (the escapes the model's keys need)
RECURSIVE UrlDecode(_)
UrlDecode(str) ==
    IF Len(str) = 0 THEN ""
    ELSE IF StringStartsWith(str, "%24") THEN "$" \o UrlDecode(SubSeq(str, 4, Len(str)))
    ELSE IF StringStartsWith(str, "%26") THEN "&" \o UrlDecode(SubSeq(str, 4, Len(str)))
    ELSE IF StringStartsWith(str, "+") THEN " " \o UrlDecode(SubSeq(str, 2, Len(str)))
    ELSE SubSeq(str, 1, 1) \o UrlDecode(SubSeq(str, 2, Len(str)))

\* new URLSearchParams(init) for a string: one leading "?" is dropped, the
\* rest is split at "&", each non-empty piece at its first "="
URLSearchParamsOf(init) ==
    LET body == IF StringStartsWith(init, "?") THEN SubSeq(init, 2, Len(init)) ELSE init
        pieces == StringSplit(body, "&")
        pair(piece) ==
            LET eq == StringIndexOf(piece, "=")
            IN IF eq = 0 THEN <<UrlDecode(piece), "">>
               ELSE <<UrlDecode(SubSeq(piece, 1, eq - 1)),
                      UrlDecode(SubSeq(piece, eq + 1, Len(piece)))>>
        collect[i \in 0..Len(pieces)] ==
            IF i = 0 THEN <<>>
            ELSE IF pieces[i] = "" THEN collect[i - 1]
            ELSE Append(collect[i - 1], pair(pieces[i]))
    IN [kind |-> "URLSearchParams", entries |-> collect[Len(pieces)]]

\* A ReadableStream handle: the n-th stream object the request has had as body
Stream(n) == [t |-> "ReadableStream", h |-> n]
File == [t |-> "File"]
SyntaxError == [name |-> "SyntaxError", message |-> "Unexpected token in JSON"]
BodyUnusable == [name |-> "TypeError", message |-> "Body is unusable"]
NotFormData == [name |-> "TypeError", message |-> "Could not parse content as FormData."]
MockedFormDataError == Error("formData() failed")
MockedTextError == Error("text() failed")

NoPayload == [none |-> TRUE]
\* The bytes of a body: text is the body read as a string, json what
\* JSON.parse makes of it, multipart the entries when the bytes are a
\* multipart encoding ("none" otherwise).
Payload(text, json, multipart) == [text |-> text, json |-> json, multipart |-> multipart]

\* A Request. body is the stream handle request.body returns (null without a
\* body), disturbed the set of its stream handles that were locked or read,
\* host what the embedding environment does where hosts differ:
\*   mockFormData       request.formData() rejects without reading the body
\*   mockText           text() of a clone rejects
\*   lenientMultipart   multipart bytes decode although the content-type
\*                      header names no boundary or is missing
MakeRequest(url, method, mode, headerEntries, payload, host) ==
    [t |-> "Request", url |-> url, method |-> method, mode |-> mode,
     headers |-> [t |-> "Headers", kind |-> "Headers", entries |-> headerEntries],
     body |-> IF payload = NoPayload THEN Null ELSE Stream(1),
     payload |-> payload, disturbed |-> {}, host |-> host]

\* Faulty variant: a stream that was read is not seen as used
BodyUsed_Never(request) == FALSE

BodyUsed(request) == request.body \in request.disturbed

\* Faulty variant: a read leaves the stream as it found it
Consume_Restored(request) == request

\* reading the body to its end: the current stream handle is disturbed
Consume(request) == [request EXCEPT !.disturbed = @ \cup {request.body}]

\* Faulty variant: the clone takes the stream and leaves the request without
\* a readable branch
Tee_Locked(request) == [request EXCEPT !.disturbed = @ \cup {request.body}]

\* request.clone(): the stream is teed; the old handle stays locked and the
\* request continues with a fresh branch
Tee(request) == [request EXCEPT !.disturbed = @ \cup {request.body},
                                !.body = Stream(request.body.h + 1)]

\* request.json() on a usable body
JsonOf(request) == request.payload.json

\* the FormData a body decodes to under content type ct
FormDataOf(request, ct) ==
    IF StringStartsWith(ct, "application/x-www-form-urlencoded")
    THEN LET params == URLSearchParamsOf(request.payload.text)
         IN Ok([i \in 1..Len(params.entries) |->
                   <<params.entries[i][1], Str(params.entries[i][2])>>])
    ELSE IF request.payload.multipart = "none" THEN Fail(NotFormData)
    ELSE IF StringStartsWith(ct, "multipart/form-data")
            /\ (StringIncludes(ct, "boundary=") \/ request.host.lenientMultipart)
         THEN Ok(request.payload.multipart)
    ELSE IF ct = "" /\ request.host.lenientMultipart THEN Ok(request.payload.multipart)
    ELSE Fail(NotFormData)

\* the printable ASCII characters in code order: 32 (space) to 95, and 97 to
\* 126
AsciiUpTo95 == " !\"#$%&'()*+,-./0123456789:;<=>?@ABCDEFGHIJKLMNOPQRSTUVWXYZ[\\]^_"

AsciiFrom97 == "abcdefghijklmnopqrstuvwxyz{|}~"

\* the one-character string U+FEFF (byte order mark)
ByteOrderMark == "﻿"

\* the UTF-8 bytes of one character (ASCII, and the other characters the
\* model's bodies use)
Utf8BytesOf(ch) ==
    CASE ch = "\t" -> <<9>>
      [] ch = "\n" -> <<10>>
      [] ch = "\r" -> <<13>>
      [] ch = "é" -> <<195, 169>>
      [] ch = "ü" -> <<195, 188>>
      [] ch = ByteOrderMark -> <<239, 187, 191>>
      [] StringIndexOf(AsciiFrom97, ch) > 0 ->
            <<StringIndexOf(AsciiFrom97, ch) + 96>>
      [] OTHER -> <<StringIndexOf(AsciiUpTo95, ch) + 31>>

\* the body bytes the Request constructor makes of a string
Utf8Encode(str) ==
    LET bytes[i \in 0..Len(str)] ==
            IF i = 0 THEN <<>> ELSE bytes[i - 1] \o Utf8BytesOf(SubSeq(str, i, i))
    IN bytes[Len(str)]

\* the characters of a byte sequence, a byte order mark as any other
RECURSIVE Utf8DecodeWithoutBOM(_)
Utf8DecodeWithoutBOM(bytes) ==
    IF bytes = <<>> THEN ""
    ELSE IF bytes[1] = 9 THEN "\t" \o Utf8DecodeWithoutBOM(Tail(bytes))
    ELSE IF bytes[1] = 10 THEN "\n" \o Utf8DecodeWithoutBOM(Tail(bytes))
    ELSE IF bytes[1] = 13 THEN "\r" \o Utf8DecodeWithoutBOM(Tail(bytes))
    ELSE IF bytes[1] < 96
    THEN SubSeq(AsciiUpTo95, bytes[1] - 31, bytes[1] - 31)
         \o Utf8DecodeWithoutBOM(Tail(bytes))
    ELSE IF bytes[1] < 128
    THEN SubSeq(AsciiFrom97, bytes[1] - 96, bytes[1] - 96)
         \o Utf8DecodeWithoutBOM(Tail(bytes))
    ELSE IF SubSeq(bytes, 1, 2) = <<195, 169>>
    THEN "é" \o Utf8DecodeWithoutBOM(SubSeq(bytes, 3, Len(bytes)))
    ELSE IF SubSeq(bytes, 1, 2) = <<195, 188>>
    THEN "ü" \o Utf8DecodeWithoutBOM(SubSeq(bytes, 3, Len(bytes)))
    ELSE IF SubSeq(bytes, 1, 3) = <<239, 187, 191>>
    THEN ByteOrderMark \o Utf8DecodeWithoutBOM(SubSeq(bytes, 4, Len(bytes)))
    ELSE "\\uFFFD" \o Utf8DecodeWithoutBOM(Tail(bytes))

\* Faulty variant: the first character is dropped whatever it is
Utf8Decode_DropFirst(bytes) ==
    LET decoded == Utf8DecodeWithoutBOM(bytes)
    IN SubSeq(decoded, 2, Len(decoded))

\* "UTF-8 decode" of the fetch standard, which text() runs on the bytes of
\* the body: a leading byte order mark is dropped
Utf8Decode(bytes) ==
    IF Len(bytes) >= 3 /\ SubSeq(bytes, 1, 3) = <<239, 187, 191>>
    THEN Utf8DecodeWithoutBOM(SubSeq(bytes, 4, Len(bytes)))
    ELSE Utf8DecodeWithoutBOM(bytes)

\* request.text() on a usable body
TextOf(request) == Utf8Decode(Utf8Encode(request.payload.text))

-----------------------------------------------------------------------------
(* body-schema.ts *)

\* One validation in flight. kind is the entry point ("bodySchema" or
\* "requestSchema"), req the id of the Request it was handed, pc the
\* position in requestSchema's preprocess function, bpc the position in
\* bodySchema's; log lists, in order, what the validation has done.
NewRun(kind, req) ==
    [kind |-> kind, req |-> req,
     pc |-> IF kind = "requestSchema" THEN "start" ELSE "off",
     bpc |-> IF kind = "bodySchema" THEN "start" ELSE "off",
     contentType |-> "", formDataError |-> Undefined, bodyOut |-> Undefined,
     urlObj |-> Undefined, searchParamsObject |-> Undefined,
     originalBody |-> Undefined, bodyValue |-> Undefined,
     headersObject |-> Undefined, originalHeaders |-> Undefined,
     simple |-> [f \in {"method", "mode", "protocol", "hostname", "pathname"} |-> Undefined],
     result |-> Undefined, error |-> Undefined, log |-> <<>>]

Declared(category) == schemas.body # Undefined /\ schemas.body[category] # Undefined

\* Faulty variant: every object with url and headers is taken for a Request
InstanceofRequest_RequestLike(val) ==
    val.t \in {"Request", "object"} /\ {"url", "headers"} \subseteq DOMAIN val

\* val instanceof Request
InstanceofRequest(val) == val.t = "Request"

\* Faulty variant: the form branch is tried before the JSON branch
BodyBranch_FormFirst(categories, contentType) ==
    IF categories.formData # Undefined
       /\ (StringIncludes(contentType, "multipart/form-data")
           \/ StringIncludes(contentType, "application/x-www-form-urlencoded"))
    THEN "formData"
    ELSE IF categories.json # Undefined /\ StringIncludes(contentType, "application/json")
    THEN "json"
    ELSE IF categories.text # Undefined
            /\ (StringStartsWith(contentType, "text/") \/ contentType = "")
    THEN "text"
    ELSE "none"

\* body-schema.ts:41, 50-54, 137-141: the branch taken for a content type
BodyBranch(categories, contentType) ==
    IF categories.json # Undefined /\ StringIncludes(contentType, "application/json")
    THEN "json"
    ELSE IF categories.formData # Undefined
            /\ (StringIncludes(contentType, "multipart/form-data")
                \/ StringIncludes(contentType, "application/x-www-form-urlencoded"))
    THEN "formData"
    ELSE IF categories.text # Undefined
            /\ (StringStartsWith(contentType, "text/") \/ contentType = "")
    THEN "text"
    ELSE "none"

\* Faulty variant: the expected types are listed whether declared or not
ExpectedTypes_All(categories) ==
    <<"application/json", "multipart/form-data", "application/x-www-form-urlencoded", "text/*">>

\* body-schema.ts:157-165
ExpectedTypes(categories) ==
    (IF categories.json # Undefined THEN <<"application/json">> ELSE <<>>)
    \o (IF categories.formData # Undefined
        THEN <<"multipart/form-data", "application/x-www-form-urlencoded">> ELSE <<>>)
    \o (IF categories.text # Undefined THEN <<"text/*">> ELSE <<>>)

\* body-schema.ts:167-171
ContentTypeMismatch(categories, contentType) ==
    Error("Content-Type mismatch. Expected one of: "
          \o JoinStrings(ExpectedTypes(categories), ", ")
          \o ", but got: "
          \o (IF contentType # "" THEN contentType ELSE "(no content-type header)"))

\* Faulty variant: the body-presence check of the no-branch case is left out
NoBranch_MismatchFirst(categories, contentType, hasBody) ==
    IF categories.json # Undefined \/ categories.formData # Undefined
       \/ categories.text # Undefined
    THEN Fail(ContentTypeMismatch(categories, contentType))
    ELSE Ok(Undefined)

\* Faulty variant: a request without a body stream is rejected also when no
\* category is declared
NoBranch_BodyAlwaysRequired(categories, contentType, hasBody) ==
    IF ~hasBody THEN Fail(Error("Request body is required"))
    ELSE IF categories.json # Undefined \/ categories.formData # Undefined
            \/ categories.text # Undefined
    THEN Fail(ContentTypeMismatch(categories, contentType))
    ELSE Ok(Undefined)

\* body-schema.ts:152-172, 174: no branch matched
NoBranch(categories, contentType, hasBody) ==
    LET hasAnySchema == categories.json # Undefined \/ categories.formData # Undefined
                        \/ categories.text # Undefined
    IN IF hasAnySchema
       THEN (IF ~hasBody THEN Fail(Error("Request body is required"))
             ELSE Fail(ContentTypeMismatch(categories, contentType)))
       ELSE Ok(Undefined)

\* the run ends: bodySchema's preprocess threw
BodyThrow(run, error) == [run EXCEPT !.bpc = "failed", !.error = error]

\* the preprocess returned { body }: the outer z.object({ body: unknown })
\* validates it and the parse resolves
BodyReturn(run, body) ==
    LET parsed == ZodParse(ZodObject(<<Entry("body", ZodOptional(ZodUnknown))>>),
                           Obj([k \in {"body"} |-> body]))
    IN IF parsed.ok THEN [run EXCEPT !.bpc = "done", !.bodyOut = parsed.value]
       ELSE BodyThrow(run, parsed.error)

\* schemas[category].parse(decoded) and the return of { body }
BodyValidate(run, category, decoded) ==
    LET run1 == [run EXCEPT !.log = Append(@, "parse:" \o category)]
        parsed == ZodParseSync(schemas.body[category], decoded)
    IN IF parsed.ok THEN BodyReturn(run1, parsed.value) ELSE BodyThrow(run1, parsed.error)

\* Faulty variant: a file entry leaves the key as it was
FieldMapOfFormData_SkipFiles(entries) ==
    LET loop[i \in 0..Len(entries)] ==
            IF i = 0 THEN EmptyRecord
            ELSE IF entries[i][2].t = "string"
            THEN Put(loop[i - 1], entries[i][1], entries[i][2])
            ELSE loop[i - 1]
    IN Obj(loop[Len(entries)])

\* body-schema.ts:65-69, 126-130: the field map of a decoded FormData
FieldMapOfFormData(entries) ==
    LET loop[i \in 0..Len(entries)] ==
            IF i = 0 THEN EmptyRecord
            ELSE Put(loop[i - 1], entries[i][1],
                     IF entries[i][2].t = "string" THEN entries[i][2] ELSE Undefined)
    IN Obj(loop[Len(entries)])

\* body-schema.ts:75-80: the field map of the fallback's URLSearchParams
FieldMapOfParams(params) ==
    LET loop[i \in 0..Len(params.entries)] ==
            IF i = 0 THEN EmptyRecord
            ELSE Put(loop[i - 1], params.entries[i][1], Str(params.entries[i][2]))
    IN Obj(loop[Len(params.entries)])

IsRun(i, kinds) == i \in DOMAIN runs /\ runs[i].kind \in kinds

\* Faulty variant: the state of a validation is kept on the validator, so
\* that every validation in flight sees what the last step wrote
SetRun_Shared(i, run) == runs' = [j \in DOMAIN runs |-> run]

SetRun(i, run) == runs' = [runs EXCEPT ![i] = run]
SetRequest(id, request) == requests' = [requests EXCEPT ![id] = request]

\* body-schema.ts:31-57, 86-110, 137-175: from the call to the first await
BodyDispatch(i) ==
    /\ IsRun(i, {"bodySchema", "requestSchema"})
    /\ runs[i].bpc = "start"
    /\ LET run == runs[i]
           val == requests[run.req]
           header == HeadersGet(val.headers, "content-type")
           contentType == IF header = Null THEN "" ELSE header.v
           hasBody == val.body # Null
           branch == BodyBranch(schemas.body, contentType)
           run1 == [run EXCEPT !.contentType = contentType]
           decode(name, bpc) == [run1 EXCEPT !.bpc = bpc, !.log = Append(@, "decode:" \o name)]
       IN IF ~InstanceofRequest(val)
          THEN SetRun(i, BodyThrow(run, Error(ERROR_EXPECTED_REQUEST))) /\ UNCHANGED requests
          ELSE IF branch = "json"
          THEN /\ SetRun(i, IF ~hasBody
                            THEN BodyThrow(run1, Error("Request body is required for JSON schema"))
                            ELSE decode("json", "json"))
               /\ UNCHANGED requests
          ELSE IF branch = "formData"
          THEN IF ~hasBody
               THEN /\ SetRun(i, BodyThrow(run1, Error("Request body is required for FormData schema")))
                    /\ UNCHANGED requests
               ELSE IF StringIncludes(contentType, "application/x-www-form-urlencoded")
               THEN SetRun(i, decode("formData", "formUrlencoded")) /\ UNCHANGED requests
               ELSE IF ~StringIncludes(contentType, "boundary=")
               THEN \* val.clone() throws on a used body: then the original is tried
                    IF BodyUsed(val)
                    THEN SetRun(i, decode("formData", "formOriginal")) /\ UNCHANGED requests
                    ELSE /\ SetRun(i, [run1 EXCEPT !.bpc = "formClone",
                                          !.log = @ \o <<"clone", "decode:cloneFormData">>])
                         /\ SetRequest(run.req, Tee(val))
               ELSE SetRun(i, decode("formData", "formData")) /\ UNCHANGED requests
          ELSE IF branch = "text"
          THEN /\ SetRun(i, IF ~hasBody
                            THEN BodyThrow(run1, Error("Request body is required for text schema"))
                            ELSE decode("text", "text"))
               /\ UNCHANGED requests
          ELSE LET none == NoBranch(schemas.body, contentType, hasBody)
               IN /\ SetRun(i, IF none.ok THEN BodyReturn(run1, none.value)
                               ELSE BodyThrow(run1, none.error))
                  /\ UNCHANGED requests
    /\ UNCHANGED <<call, ret, schemas>>

\* body-schema.ts:45-46: await val.json(), then schemas.json.parse
BodyJson(i) ==
    /\ IsRun(i, {"bodySchema", "requestSchema"})
    /\ runs[i].bpc = "json"
    /\ LET run == runs[i]
           val == requests[run.req]
       IN IF BodyUsed(val)
          THEN SetRun(i, BodyThrow(run, BodyUnusable)) /\ UNCHANGED requests
          ELSE /\ SetRequest(run.req, Consume(val))
               /\ SetRun(i, IF JsonOf(val).ok THEN BodyValidate(run, "json", JsonOf(val).value)
                            ELSE BodyThrow(run, JsonOf(val).error))
    /\ UNCHANGED <<call, ret, schemas>>

\* Faulty variant: the failure of the fallback is the one surfaced
BothFailed_TextError(formDataError, textError) == textError

\* body-schema.ts:81-84: both attempts failed, throw formDataError
BothFailed(formDataError, textError) == formDataError

\* body-schema.ts:63-74: await val.formData() of a url-encoded body; when it
\* rejects, the request is cloned for the fallback (a clone of a used body
\* throws, and the first error is rethrown)
BodyFormUrlencoded(i) ==
    /\ IsRun(i, {"bodySchema", "requestSchema"})
    /\ runs[i].bpc = "formUrlencoded"
    /\ LET run == runs[i]
           val == requests[run.req]
           decoded == FormDataOf(val, run.contentType)
           fallback(error, request) ==
               IF BodyUsed(request)
               THEN /\ SetRun(i, BodyThrow(run, BothFailed(error, BodyUnusable)))
                    /\ SetRequest(run.req, request)
               ELSE /\ SetRun(i, [run EXCEPT !.bpc = "formFallbackText", !.formDataError = error,
                                             !.log = @ \o <<"clone", "decode:cloneText">>])
                    /\ SetRequest(run.req, Tee(request))
       IN IF val.host.mockFormData THEN fallback(MockedFormDataError, val)
          ELSE IF BodyUsed(val) THEN fallback(BodyUnusable, val)
          ELSE IF ~decoded.ok THEN fallback(decoded.error, Consume(val))
          ELSE /\ SetRequest(run.req, Consume(val))
               /\ SetRun(i, BodyValidate(run, "formData", FieldMapOfFormData(decoded.value)))
    /\ UNCHANGED <<call, ret, schemas>>

\* body-schema.ts:74-84: await clonedRequest.text(), new URLSearchParams(text)
BodyFormFallbackText(i) ==
    /\ IsRun(i, {"bodySchema", "requestSchema"})
    /\ runs[i].bpc = "formFallbackText"
    /\ LET run == runs[i]
           val == requests[run.req]
       IN SetRun(i, IF val.host.mockText
                    THEN BodyThrow(run, BothFailed(run.formDataError, MockedTextError))
                    ELSE BodyValidate(run, "formData",
                                      FieldMapOfParams(URLSearchParamsOf(TextOf(val)))))
    /\ UNCHANGED <<call, ret, schemas, requests>>

\* body-schema.ts:111-112: await requestWithoutContentType.formData(); when it
\* rejects the original request is decoded
BodyFormClone(i) ==
    /\ IsRun(i, {"bodySchema", "requestSchema"})
    /\ runs[i].bpc = "formClone"
    /\ LET run == runs[i]
           val == requests[run.req]
           decoded == FormDataOf(val, "")
       IN SetRun(i, IF decoded.ok
                    THEN BodyValidate(run, "formData", FieldMapOfFormData(decoded.value))
                    ELSE [run EXCEPT !.bpc = "formOriginal", !.log = Append(@, "decode:formData")])
    /\ UNCHANGED <<call, ret, schemas, requests>>

\* body-schema.ts:115-119 and 123: await val.formData() of a multipart body
FormDataDecode(i) ==
    LET run == runs[i]
        val == requests[run.req]
        decoded == FormDataOf(val, run.contentType)
    IN IF val.host.mockFormData
       THEN SetRun(i, BodyThrow(run, MockedFormDataError)) /\ UNCHANGED requests
       ELSE IF BodyUsed(val)
       THEN SetRun(i, BodyThrow(run, BodyUnusable)) /\ UNCHANGED requests
       ELSE /\ SetRequest(run.req, Consume(val))
            /\ SetRun(i, IF decoded.ok
                         THEN BodyValidate(run, "formData", FieldMapOfFormData(decoded.value))
                         ELSE BodyThrow(run, decoded.error))

BodyFormOriginal(i) ==
    /\ IsRun(i, {"bodySchema", "requestSchema"})
    /\ runs[i].bpc = "formOriginal"
    /\ FormDataDecode(i)
    /\ UNCHANGED <<call, ret, schemas>>

BodyFormData(i) ==
    /\ IsRun(i, {"bodySchema", "requestSchema"})
    /\ runs[i].bpc = "formData"
    /\ FormDataDecode(i)
    /\ UNCHANGED <<call, ret, schemas>>

\* body-schema.ts:145-146: await val.text(), then schemas.text.parse
BodyText(i) ==
    /\ IsRun(i, {"bodySchema", "requestSchema"})
    /\ runs[i].bpc = "text"
    /\ LET run == runs[i]
           val == requests[run.req]
       IN IF BodyUsed(val)
          THEN SetRun(i, BodyThrow(run, BodyUnusable)) /\ UNCHANGED requests
          ELSE /\ SetRequest(run.req, Consume(val))
               /\ SetRun(i, BodyValidate(run, "text", Str(TextOf(val))))
    /\ UNCHANGED <<call, ret, schemas>>

-----------------------------------------------------------------------------
(* Stand-alone body validation: bodySchema(categories).parseAsync(request) *)

NoSchemas == [searchParams |-> Undefined, body |-> Undefined, headers |-> Undefined,
              method |-> Undefined, mode |-> Undefined, protocol |-> Undefined,
              hostname |-> Undefined, pathname |-> Undefined]

JsonSchema == ZodObject(<<Entry("type", ZodLiteral("json"))>>)
FormSchema == ZodObject(<<Entry("type", ZodLiteral("form"))>>)

\* bodySchema({ json?, formData?, text? })
bodySchema(json, formData, text) == [json |-> json, formData |-> formData, text |-> text]

BodySchemas ==
    {bodySchema(j, f, x) : j \in {Undefined, JsonSchema}, f \in {Undefined, FormSchema},
                           x \in {Undefined, ZodString, ZodLiteral("type=form")}}

ContentTypes ==
    {"", "application/json", "application/json; charset=utf-8",
     "multipart/form-data; boundary=b", "multipart/form-data",
     "application/x-www-form-urlencoded", "text/plain", "application/xml",
     "application/json; x=multipart/form-data", "text/plain; x=application/json",
     "text/x; y=application/x-www-form-urlencoded"}

Payloads ==
    {Payload("{\"type\":\"json\"}", Ok(Obj([type |-> Str("json")])), "none"),
     Payload("{\"type\":\"form\"}", Ok(Obj([type |-> Str("form")])), "none"),
     Payload("type=form", Fail(SyntaxError), "none"),
     Payload("type=form&extra=a", Fail(SyntaxError), "none"),
     Payload("--b", Fail(SyntaxError), <<<<"type", Str("form")>>, <<"upload", File>>>>),
     Payload("", Fail(SyntaxError), "none"),
     Payload("a\tb\r\nc", Fail(SyntaxError), "none"),
     Payload("éü z", Fail(SyntaxError), "none"),
     Payload(ByteOrderMark \o "a", Fail(SyntaxError), "none"),
     Payload("a" \o ByteOrderMark, Fail(SyntaxError), "none")}

Host(mockFormData, mockText, lenientMultipart) ==
    [mockFormData |-> mockFormData, mockText |-> mockText,
     lenientMultipart |-> lenientMultipart]
Hosts == {Host(FALSE, FALSE, FALSE), Host(FALSE, FALSE, TRUE),
          Host(TRUE, FALSE, FALSE), Host(TRUE, TRUE, FALSE)}

ExampleUrl == [t |-> "URL", protocol |-> "https:", hostname |-> "example.com", port |-> "",
               pathname |-> "/api", search |-> "", hash |-> ""]

ContentTypeHeader(ct) == IF ct = "" THEN <<>> ELSE <<<<"content-type", ct>>>>

BodyRequests ==
    {MakeRequest(ExampleUrl, "POST", "cors", ContentTypeHeader(ct), payload, host) :
        ct \in ContentTypes, payload \in Payloads \cup {NoPayload}, host \in Hosts}

InitBody ==
    /\ call = NoCall
    /\ ret = Pending
    /\ \E b \in BodySchemas : schemas = [NoSchemas EXCEPT !.body = b]
    /\ \E r \in BodyRequests : requests = <<r>>
    /\ runs = <<NewRun("bodySchema", 1)>>

NextBody ==
    \/ \E i \in DOMAIN runs : BodyDispatch(i)
    \/ \E i \in DOMAIN runs : BodyJson(i)
    \/ \E i \in DOMAIN runs : BodyFormUrlencoded(i)
    \/ \E i \in DOMAIN runs : BodyFormFallbackText(i)
    \/ \E i \in DOMAIN runs : BodyFormClone(i)
    \/ \E i \in DOMAIN runs : BodyFormOriginal(i)
    \/ \E i \in DOMAIN runs : BodyFormData(i)
    \/ \E i \in DOMAIN runs : BodyText(i)

SpecBody == InitBody /\ [][NextBody]_vars

-----------------------------------------------------------------------------
(* search-params-schema.ts, headers-schema.ts: the preprocessed schemas *)

\* z.preprocess(fn, schema): def.out is the schema the preprocessed value is
\* validated against
searchParamsSchema(schema) == [type |-> "pipe", preprocess |-> "searchParams", out |-> schema]
headersSchema(schema) == [type |-> "pipe", preprocess |-> "headers", out |-> schema]

-----------------------------------------------------------------------------
(* request-schema.ts *)

SimpleFields == <<"method", "mode", "protocol", "hostname", "pathname">>

\* request-schema.ts:125-178: the schema of the result object
buildResultSchema(config) ==
    LET base(preprocessed) ==
            IF extractBaseSchema(preprocessed) # Undefined
            THEN extractBaseSchema(preprocessed) ELSE ZodUnknown
        simple(f) == Entry(f, IF config[f] # Undefined THEN config[f]
                              ELSE ZodOptional(ZodUnknown))
    IN ZodObject(
        <<Entry("url", ZodInstanceof("URL")),
          Entry("searchParamsObject",
                IF config.searchParams # Undefined THEN base(config.searchParams)
                ELSE ZodOptional(ZodUnknown)),
          Entry("body", IF config.body # Undefined
                        THEN ZodNullable(ZodInstanceof("ReadableStream"))
                        ELSE ZodOptional(ZodUnknown)),
          Entry("bodyObject", IF config.body # Undefined THEN ZodUnknown
                              ELSE ZodOptional(ZodUnknown)),
          Entry("headers", IF config.headers # Undefined THEN ZodInstanceof("Headers")
                           ELSE ZodOptional(ZodUnknown)),
          Entry("headersObj", IF config.headers # Undefined THEN base(config.headers)
                              ELSE ZodOptional(ZodUnknown)),
          simple("method"), simple("mode"), simple("protocol"),
          simple("hostname"), simple("pathname")>>)

\* request-schema.ts:192-208
processSearchParams(searchParams, urlObj) ==
    LET params == URLSearchParamsOf(urlObj.search)
        baseSchema == extractBaseSchema(searchParams)
        obj == extractSearchParamsObject(params, baseSchema.shape)
    IN IF baseSchema = Undefined
       THEN Fail(Error(StringReplace(ERROR_UNABLE_TO_EXTRACT_BASE_SCHEMA, "{name}", "searchParams")))
       ELSE IF ~obj.ok THEN obj
       ELSE ZodParse(baseSchema, Obj(obj.value))

\* request-schema.ts:217-231
processHeaders(headers, requestHeaders) ==
    LET baseSchema == extractBaseSchema(headers)
    IN IF baseSchema = Undefined
       THEN Fail(Error(StringReplace(ERROR_UNABLE_TO_EXTRACT_BASE_SCHEMA, "{name}", "headers")))
       ELSE ZodParse(baseSchema, Obj(extractHeadersObject(requestHeaders, baseSchema.shape)))

\* request-schema.ts:266-271
processSimpleField(schema, value) == ZodParse(schema, Str(value))

\* request-schema.ts:379-399: the string a simple field is derived from
SimpleFieldValue(field, val, urlObj) ==
    CASE field = "method" -> val.method
      [] field = "mode" -> val.mode
      [] field = "protocol" -> StringReplace(urlObj.protocol, ":", "")
      [] field = "hostname" -> urlObj.hostname
      [] field = "pathname" -> urlObj.pathname

\* the position after a simple field
AfterSimpleField(field) ==
    CASE field = "method" -> "mode"
      [] field = "mode" -> "protocol"
      [] field = "protocol" -> "hostname"
      [] field = "hostname" -> "pathname"
      [] field = "pathname" -> "return"

\* Faulty variant: a failure is recorded and the validation goes on
Throw_KeepGoing(run, error) == [run EXCEPT !.error = error]

\* the preprocess function throws: the promise rejects with error
Throw(run, error) == [run EXCEPT !.pc = "failed", !.error = error]

Facet(run, name) == [run EXCEPT !.log = Append(@, "facet:" \o name)]

\* Faulty variant: the stream reference is not read before the body is parsed
processBodyEnter_NoCapture(run, request) ==
    [run EXCEPT !.bpc = "start", !.log = Append(@, "call:body.parseAsync")]

\* request-schema.ts:248-249: the stream reference is read, then the body
\* sub-validator is started on the request
processBodyEnter(run, request) ==
    [run EXCEPT !.originalBody = request.body, !.bpc = "start",
                !.log = @ \o <<"read:body", "call:body.parseAsync">>]

\* Faulty variant: the raw headers are handed out whether declared or not
OriginalHeaders_Always(headers, val) == val.headers

\* request-schema.ts:375
OriginalHeaders(headers, val) == IF headers # Undefined THEN val.headers ELSE Undefined

\* request-schema.ts:402-414: the object the preprocess function returns
ReturnObject(run) ==
    Obj([k \in {"url", "searchParamsObject", "body", "bodyObject", "headers", "headersObj",
                "method", "mode", "protocol", "hostname", "pathname"} |->
            CASE k = "url" -> run.urlObj
              [] k = "searchParamsObject" -> run.searchParamsObject
              [] k = "body" -> run.originalBody
              [] k = "bodyObject" -> run.bodyValue
              [] k = "headers" -> run.originalHeaders
              [] k = "headersObj" -> run.headersObject
              [] OTHER -> run.simple[k]])

\* request-schema.ts:350-355
RequestStart(i) ==
    /\ IsRun(i, {"requestSchema"})
    /\ runs[i].pc = "start"
    /\ LET run == runs[i]
           val == requests[run.req]
       IN SetRun(i, IF ~InstanceofRequest(val)
                    THEN Throw([run EXCEPT !.pc = "searchParams"], Error(ERROR_EXPECTED_REQUEST))
                    ELSE [run EXCEPT !.pc = "searchParams", !.urlObj = val.url])
    /\ UNCHANGED <<call, ret, schemas, requests>>

\* request-schema.ts:358-360
ProcessSearchParams(i) ==
    /\ IsRun(i, {"requestSchema"})
    /\ runs[i].pc = "searchParams"
    /\ LET run == [runs[i] EXCEPT !.pc = "body"]
           parsed == processSearchParams(schemas.searchParams, run.urlObj)
       IN SetRun(i, IF schemas.searchParams = Undefined THEN run
                    ELSE IF parsed.ok
                    THEN [Facet(run, "searchParams") EXCEPT !.searchParamsObject = parsed.value]
                    ELSE Throw(Facet(run, "searchParams"), parsed.error))
    /\ UNCHANGED <<call, ret, schemas, requests>>

\* request-schema.ts:363-369 and 248-249
ProcessBody(i) ==
    /\ IsRun(i, {"requestSchema"})
    /\ runs[i].pc = "body"
    /\ LET run == runs[i]
           val == requests[run.req]
       IN SetRun(i, IF schemas.body = Undefined THEN [run EXCEPT !.pc = "headers"]
                    ELSE processBodyEnter([Facet(run, "body") EXCEPT !.pc = "bodyAwait"], val))
    /\ UNCHANGED <<call, ret, schemas, requests>>

\* request-schema.ts:249-257: body.parseAsync(request) settles
ProcessBodyReturn(i) ==
    /\ IsRun(i, {"requestSchema"})
    /\ runs[i].pc = "bodyAwait"
    /\ runs[i].bpc \in {"done", "failed"}
    /\ LET run == [runs[i] EXCEPT !.pc = "headers"]
       IN SetRun(i, IF run.bpc = "done" THEN [run EXCEPT !.bodyValue = run.bodyOut.v.body]
                    ELSE Throw(run, run.error))
    /\ UNCHANGED <<call, ret, schemas, requests>>

\* request-schema.ts:372-375
ProcessHeaders(i) ==
    /\ IsRun(i, {"requestSchema"})
    /\ runs[i].pc = "headers"
    /\ LET run == [runs[i] EXCEPT !.pc = "method"]
           val == requests[run.req]
           parsed == processHeaders(schemas.headers, val.headers)
       IN SetRun(i, IF schemas.headers = Undefined
                    THEN [run EXCEPT !.originalHeaders = OriginalHeaders(schemas.headers, val)]
                    ELSE IF parsed.ok
                    THEN [Facet(run, "headers") EXCEPT
                             !.headersObject = parsed.value,
                             !.originalHeaders = OriginalHeaders(schemas.headers, val)]
                    ELSE Throw(Facet(run, "headers"), parsed.error))
    /\ UNCHANGED <<call, ret, schemas, requests>>

\* request-schema.ts:379-399: method, mode, protocol, hostname, pathname
ProcessSimpleField(i) ==
    /\ IsRun(i, {"requestSchema"})
    /\ runs[i].pc \in Range(SimpleFields)
    /\ LET field == runs[i].pc
           run == [runs[i] EXCEPT !.pc = AfterSimpleField(field)]
           val == requests[run.req]
           parsed == processSimpleField(schemas[field], SimpleFieldValue(field, val, run.urlObj))
       IN SetRun(i, IF schemas[field] = Undefined THEN run
                    ELSE IF parsed.ok
                    THEN [Facet(run, field) EXCEPT !.simple[field] = parsed.value]
                    ELSE Throw(Facet(run, field), parsed.error))
    /\ UNCHANGED <<call, ret, schemas, requests>>

\* request-schema.ts:402-415: the object is returned and validated against
\* the result schema
Return(i) ==
    /\ IsRun(i, {"requestSchema"})
    /\ runs[i].pc = "return"
    /\ LET run == [runs[i] EXCEPT !.pc = "done"]
           parsed == ZodParse(buildResultSchema(schemas), ReturnObject(run))
       IN SetRun(i, IF parsed.ok THEN [run EXCEPT !.result = parsed.value]
                    ELSE Throw(run, parsed.error))
    /\ UNCHANGED <<call, ret, schemas, requests>>

-----------------------------------------------------------------------------
(* requestSchema on a Request: the sub-validators a config may declare and
   the requests it is run on *)

FacetNames == <<"searchParams", "body", "headers", "method", "mode", "protocol",
                "hostname", "pathname">>

\* what each facet is declared as when it is declared
DeclaredFacet(name) ==
    CASE name = "searchParams" -> searchParamsSchema(ZodObject(<<Entry("tag", ZodString)>>))
      [] name = "headers" -> headersSchema(ZodObject(<<Entry("x-api-key", ZodString)>>))
      [] name = "method" -> ZodLiteral("POST")
      [] name = "mode" -> ZodLiteral("cors")
      [] name = "protocol" -> ZodLiteral("https")
      [] name = "hostname" -> ZodLiteral("example.com")
      [] name = "pathname" -> ZodLiteral("/api")

\* the body sub-validators a config may carry
ConfigBodies == {bodySchema(Undefined, Undefined, Undefined),
                 bodySchema(JsonSchema, Undefined, Undefined),
                 bodySchema(Undefined, FormSchema, ZodString),
                 bodySchema(JsonSchema, FormSchema, ZodString)}

Configs ==
    {[f \in Range(FacetNames) |->
         IF f = "body" THEN b
         ELSE IF f \in declared THEN DeclaredFacet(f) ELSE Undefined] :
     declared \in SUBSET (Range(FacetNames) \ {"body"}),
     b \in ConfigBodies \cup {Undefined}}

JsonPayload == Payload("{\"type\":\"json\"}", Ok(Obj([type |-> Str("json")])), "none")
FormPayload == Payload("type=form", Fail(SyntaxError), "none")

\* a POST of a JSON body that every declared facet accepts
BaseRequest ==
    [url |-> [ExampleUrl EXCEPT !.search = "?tag=a", !.pathname = "/api"],
     method |-> "POST", mode |-> "cors", apiKey |-> <<<<"x-api-key", "k">>>>,
     contentType |-> "application/json", payload |-> JsonPayload,
     host |-> Host(FALSE, FALSE, FALSE)]

\* the base request and requests that differ from it in what one facet, or
\* two facets, see
RequestPlans ==
    {BaseRequest,
     [BaseRequest EXCEPT !.url.search = "?tag=a&tag=b"],
     [BaseRequest EXCEPT !.url.search = ""],
     [BaseRequest EXCEPT !.url.search = "?tag=a&extra=b"],
     [BaseRequest EXCEPT !.apiKey = <<>>],
     [BaseRequest EXCEPT !.method = "PUT"],
     [BaseRequest EXCEPT !.mode = "no-cors"],
     [BaseRequest EXCEPT !.url.protocol = "http:"],
     [BaseRequest EXCEPT !.url.hostname = "other.test"],
     [BaseRequest EXCEPT !.url.pathname = "/"],
     [BaseRequest EXCEPT !.url.search = "", !.method = "PUT"],
     [BaseRequest EXCEPT !.apiKey = <<>>, !.url.pathname = "/"],
     [BaseRequest EXCEPT !.payload = Payload("{\"type\":\"form\"}",
                                             Ok(Obj([type |-> Str("form")])), "none")],
     [BaseRequest EXCEPT !.payload = Payload("{", Fail(SyntaxError), "none"),
                         !.mode = "no-cors"],
     [BaseRequest EXCEPT !.payload = NoPayload, !.method = "GET"],
     [BaseRequest EXCEPT !.payload = NoPayload, !.contentType = ""],
     [BaseRequest EXCEPT !.contentType = "application/x-www-form-urlencoded",
                         !.payload = FormPayload],
     [BaseRequest EXCEPT !.contentType = "application/x-www-form-urlencoded",
                         !.payload = FormPayload, !.host = Host(TRUE, FALSE, FALSE)],
     [BaseRequest EXCEPT !.contentType = "application/x-www-form-urlencoded",
                         !.payload = FormPayload, !.host = Host(TRUE, TRUE, FALSE)],
     [BaseRequest EXCEPT !.contentType = "multipart/form-data; boundary=x",
                         !.payload = Payload("--x", Fail(SyntaxError),
                                             <<<<"type", Str("form")>>, <<"file", File>>>>)],
     [BaseRequest EXCEPT !.contentType = "multipart/form-data",
                         !.payload = Payload("--x", Fail(SyntaxError),
                                             <<<<"type", Str("form")>>>>),
                         !.host = Host(FALSE, FALSE, TRUE)],
     [BaseRequest EXCEPT !.contentType = "multipart/form-data",
                         !.payload = Payload("--x", Fail(SyntaxError),
                                             <<<<"type", Str("form")>>>>)],
     [BaseRequest EXCEPT !.contentType = "text/plain", !.payload = FormPayload],
     [BaseRequest EXCEPT !.contentType = "application/xml", !.payload = FormPayload],
     [BaseRequest EXCEPT !.contentType = "application/x-www-form-urlencoded",
                         !.payload = FormPayload, !.host = Host(TRUE, FALSE, FALSE),
                         !.method = "PUT"],
     [BaseRequest EXCEPT !.contentType = "multipart/form-data",
                         !.payload = Payload("--x", Fail(SyntaxError),
                                             <<<<"type", Str("form")>>>>),
                         !.host = Host(FALSE, FALSE, TRUE), !.method = "PUT"],
     [BaseRequest EXCEPT !.contentType = "text/plain", !.payload = FormPayload,
                         !.url.pathname = "/"]}

RequestOfPlan(plan) ==
    MakeRequest(plan.url, plan.method, plan.mode,
                ContentTypeHeader(plan.contentType) \o plan.apiKey, plan.payload, plan.host)

Init ==
    /\ call = NoCall
    /\ ret = Pending
    /\ \E c \in Configs : schemas = c
    /\ \E plan \in RequestPlans : requests = <<RequestOfPlan(plan)>>
    /\ runs = <<NewRun("requestSchema", 1)>>

Next ==
    \/ \E i \in DOMAIN runs : RequestStart(i)
    \/ \E i \in DOMAIN runs : ProcessSearchParams(i)
    \/ \E i \in DOMAIN runs : ProcessBody(i)
    \/ \E i \in DOMAIN runs : BodyDispatch(i)
    \/ \E i \in DOMAIN runs : BodyJson(i)
    \/ \E i \in DOMAIN runs : BodyFormUrlencoded(i)
    \/ \E i \in DOMAIN runs : BodyFormFallbackText(i)
    \/ \E i \in DOMAIN runs : BodyFormClone(i)
    \/ \E i \in DOMAIN runs : BodyFormOriginal(i)
    \/ \E i \in DOMAIN runs : BodyFormData(i)
    \/ \E i \in DOMAIN runs : BodyText(i)
    \/ \E i \in DOMAIN runs : ProcessBodyReturn(i)
    \/ \E i \in DOMAIN runs : ProcessHeaders(i)
    \/ \E i \in DOMAIN runs : ProcessSimpleField(i)
    \/ \E i \in DOMAIN runs : Return(i)

Spec == Init /\ [][Next]_vars

-----------------------------------------------------------------------------
(* Properties of the extractors, checked under SpecExtract *)

Returned == ret # Pending

\* the positions of key in the source, and the values the source gives for
\* it: all of them in source order, or the first one alone when the source
\* has no getAll
PositionsOf(source, key) == {i \in 1..Len(source.entries) : source.entries[i][1] = key}
NthPosition(source, key, n) ==
    CHOOSE i \in PositionsOf(source, key) :
        Cardinality({j \in PositionsOf(source, key) : j <= i}) = n
ValueCount(source, key) ==
    IF source.kind = "get" /\ PositionsOf(source, key) # {} THEN 1
    ELSE Cardinality(PositionsOf(source, key))

DeclaredWith(rules) ==
    {i \in 1..Len(call.shape) : call.shape[i].schema \in rules}
ScalarRules == {ZodString, ZodOptional(ZodString)}
ArrayRules == {ZodArray}

\* C2: the map returned by extractSearchParamsObject and by
\* extractHeadersObject has no key outside the declared shape's key set,
\* whatever keys and values the source holds.
C2_KeyFiltering ==
    (Returned /\ ret.ok) => DOMAIN ret.value \subseteq ShapeKeys(call.shape)

C2_Witness ==
    /\ Returned /\ ret.ok
    /\ \E i \in 1..Len(call.source.entries) :
          call.source.entries[i][1] \notin ShapeKeys(call.shape)
    /\ \E i \in 1..Len(call.source.entries) :
          call.source.entries[i][1] \in DOMAIN ret.value
    /\ call.fn = "extractHeadersObject"

\* The cardinality failure of a key: one custom issue at path [key]
IsCardinalityFailure(key) ==
    /\ ~ret.ok
    /\ ret.error.name = "ZodError"
    /\ Len(ret.error.issues) = 1
    /\ ret.error.issues[1].code = "custom"
    /\ ret.error.issues[1].path = <<key>>

MessageNames(key) ==
    StringIncludes(ret.error.issues[1].message, "parameter \"" \o key \o "\" but")

\* the first declared key, in the shape's order, that has a rule and more
\* than one value while its rule is not z.array
Offending == {i \in 1..Len(call.shape) :
                /\ call.shape[i].schema # Undefined
                /\ call.shape[i].schema.type # "array"
                /\ ValueCount(call.source, call.shape[i].key) > 1}
FirstOffending == CHOOSE i \in Offending : \A j \in Offending : i <= j

\* C3 (as claimed): for a key with a scalar rule, no value gives undefined,
\* one value gives that value, and more than one value makes the
\* extraction fail with an issue whose path is [key] and whose message
\* names the key.
C3_ScalarLaw ==
    (Returned /\ call.fn = "extractSearchParamsObject") =>
        \A i \in DeclaredWith(ScalarRules) :
            LET key == call.shape[i].key
                n == ValueCount(call.source, key)
            IN /\ (n = 0 /\ ret.ok) => (key \in DOMAIN ret.value /\ ret.value[key] = Undefined)
               /\ (n = 1 /\ ret.ok) =>
                     ret.value[key] = Str(call.source.entries[NthPosition(call.source, key, 1)][2])
               /\ n > 1 => ~ret.ok
               /\ (n > 1 /\ i = FirstOffending) =>
                     (IsCardinalityFailure(key) /\ MessageNames(key))

\* C3 without the wording of the message: values, failure and path
C3_ScalarLawUpToMessage ==
    (Returned /\ call.fn = "extractSearchParamsObject") =>
        \A i \in DeclaredWith(ScalarRules) :
            LET key == call.shape[i].key
                n == ValueCount(call.source, key)
            IN /\ (n = 0 /\ ret.ok) => (key \in DOMAIN ret.value /\ ret.value[key] = Undefined)
               /\ (n = 1 /\ ret.ok) =>
                     ret.value[key] = Str(call.source.entries[NthPosition(call.source, key, 1)][2])
               /\ n > 1 => ~ret.ok
               /\ (n > 1 /\ i = FirstOffending) =>
                     (IsCardinalityFailure(key)
                      /\ (\A c \in 1..Len(key) : SubSeq(key, c, c) # "$") => MessageNames(key))

C3_Witness ==
    /\ Returned /\ call.fn = "extractSearchParamsObject"
    /\ \E i \in DeclaredWith(ScalarRules) :
          /\ ValueCount(call.source, call.shape[i].key) > 1
          /\ i = FirstOffending
          /\ IsCardinalityFailure(call.shape[i].key)
          /\ MessageNames(call.shape[i].key)

\* C4: for a key with an array rule, no value gives undefined, n >= 1
\* values give the n-element array of the values in the order the source
\* returns them, and the key never causes the cardinality failure.
C4_ArrayLaw ==
    (Returned /\ call.fn = "extractSearchParamsObject") =>
        \A i \in DeclaredWith(ArrayRules) :
            LET key == call.shape[i].key
                n == ValueCount(call.source, key)
            IN /\ ret.ok =>
                    /\ key \in DOMAIN ret.value
                    /\ n = 0 => ret.value[key] = Undefined
                    /\ n > 0 =>
                          /\ ret.value[key].t = "array"
                          /\ Len(ret.value[key].v) = n
                          /\ \A j \in 1..n :
                                ret.value[key].v[j] =
                                    call.source.entries[NthPosition(call.source, key, j)][2]
               /\ ~ret.ok => ret.error.issues[1].path # <<key>>
               /\ (Offending = {}) => ret.ok

C4_Witness ==
    /\ Returned /\ call.fn = "extractSearchParamsObject" /\ ret.ok
    /\ \E i \in DeclaredWith(ArrayRules) :
          /\ ValueCount(call.source, call.shape[i].key) = 2
          /\ ret.value[call.shape[i].key] = Arr(<<"b", "a">>)
    /\ \E i \in DeclaredWith(ArrayRules) :
          /\ ValueCount(call.source, call.shape[i].key) = 1
          /\ Len(ret.value[call.shape[i].key].v) = 1

-----------------------------------------------------------------------------
(* Properties of bodySchema, checked under SpecBody *)

BodyRuns == {i \in DOMAIN runs : runs[i].bpc # "off"}
Dispatched(i) == runs[i].bpc # "start"
Finished(i) == runs[i].bpc \in {"done", "failed"}
ContentTypeOf(i) ==
    LET entries == requests[runs[i].req].headers.entries
    IN IF \E n \in 1..Len(entries) : entries[n][1] = "content-type"
       THEN entries[CHOOSE n \in 1..Len(entries) : entries[n][1] = "content-type"][2]
       ELSE ""
HasBody(i) == requests[runs[i].req].payload # NoPayload

\* the content-type condition of each category
JsonCondition(i) == Declared("json") /\ StringIncludes(ContentTypeOf(i), "application/json")
FormCondition(i) ==
    /\ Declared("formData")
    /\ \/ StringIncludes(ContentTypeOf(i), "multipart/form-data")
       \/ StringIncludes(ContentTypeOf(i), "application/x-www-form-urlencoded")
TextCondition(i) ==
    /\ Declared("text")
    /\ (ContentTypeOf(i) = "" \/ StringStartsWith(ContentTypeOf(i), "text/"))

\* what a validation may do inside each branch
JsonEvents == {"decode:json", "parse:json"}
FormEvents == {"decode:formData", "clone", "decode:cloneFormData", "decode:cloneText",
               "parse:formData"}
TextEvents == {"decode:text", "parse:text"}
BodyEvents == JsonEvents \cup FormEvents \cup TextEvents
BodyLog(i) == {e \in Range(runs[i].log) : e \in BodyEvents}

\* C5: the branches are tried in the order json, form, text, and only the
\* first one whose category is declared and whose content-type condition
\* holds is ever run: its decode is started when a body is there, nothing of
\* another branch is decoded or validated, also after the chosen branch
\* failed, and a failed validation does nothing more.
C5_BranchPriority ==
    \A i \in BodyRuns : Dispatched(i) =>
        /\ JsonCondition(i) =>
              /\ BodyLog(i) \subseteq JsonEvents
              /\ HasBody(i) => "decode:json" \in BodyLog(i)
        /\ (~JsonCondition(i) /\ FormCondition(i)) =>
              /\ BodyLog(i) \subseteq FormEvents
              /\ HasBody(i) => BodyLog(i) \cap {"decode:formData", "decode:cloneFormData"} # {}
        /\ (~JsonCondition(i) /\ ~FormCondition(i) /\ TextCondition(i)) =>
              /\ BodyLog(i) \subseteq TextEvents
              /\ HasBody(i) => "decode:text" \in BodyLog(i)
        /\ (~JsonCondition(i) /\ ~FormCondition(i) /\ ~TextCondition(i)) => BodyLog(i) = {}
        /\ runs[i].bpc = "failed" => runs[i].bodyOut = Undefined

\* json wins over form although the json branch then fails validation
C5_Witness ==
    \E i \in BodyRuns :
        /\ JsonCondition(i) /\ FormCondition(i)
        /\ runs[i].bpc = "failed"
        /\ runs[i].error.name = "ZodError"
        /\ runs[i].log = <<"decode:json", "parse:json">>
        /\ requests[runs[i].req].payload.json = Ok(Obj([type |-> Str("form")]))

\* the expected media types of the declared categories, spelled out
ExpectedList ==
    LET j == Declared("json")
        f == Declared("formData")
        x == Declared("text")
    IN CASE j /\ f /\ x ->
              "application/json, multipart/form-data, application/x-www-form-urlencoded, text/*"
         [] j /\ f /\ ~x ->
              "application/json, multipart/form-data, application/x-www-form-urlencoded"
         [] j /\ ~f /\ x -> "application/json, text/*"
         [] j /\ ~f /\ ~x -> "application/json"
         [] ~j /\ f /\ x -> "multipart/form-data, application/x-www-form-urlencoded, text/*"
         [] ~j /\ f /\ ~x -> "multipart/form-data, application/x-www-form-urlencoded"
         [] ~j /\ ~f /\ x -> "text/*"
         [] OTHER -> ""

NoBranchMatches(i) ==
    /\ Declared("json") \/ Declared("formData") \/ Declared("text")
    /\ ~JsonCondition(i) /\ ~FormCondition(i) /\ ~TextCondition(i)

IsMismatchFailure(i) ==
    /\ runs[i].bpc = "failed"
    /\ runs[i].error.name = "Error"
    /\ runs[i].error.message =
          "Content-Type mismatch. Expected one of: " \o ExpectedList \o ", but got: "
          \o (IF ContentTypeOf(i) = "" THEN "(no content-type header)" ELSE ContentTypeOf(i))

\* C10 (as claimed): whenever no branch matches and a category is declared,
\* the validation fails with the Content-Type mismatch error that lists the
\* expected types of the declared categories and echoes the content type.
C10_MismatchAlways ==
    \A i \in BodyRuns : (Dispatched(i) /\ NoBranchMatches(i)) => IsMismatchFailure(i)

\* C10 (amended): the same for a request that has a body stream; without a
\* body stream the failure is "Request body is required" instead.
C10_MismatchWithBody ==
    \A i \in BodyRuns : (Dispatched(i) /\ NoBranchMatches(i)) =>
        /\ HasBody(i) => IsMismatchFailure(i)
        /\ ~HasBody(i) => (runs[i].bpc = "failed"
                           /\ runs[i].error = Error("Request body is required"))

C10_Witness ==
    \E i \in BodyRuns :
        /\ Dispatched(i) /\ NoBranchMatches(i) /\ HasBody(i)
        /\ Declared("json") /\ Declared("formData") /\ ~Declared("text")
        /\ ContentTypeOf(i) = ""
        /\ runs[i].error.message =
              "Content-Type mismatch. Expected one of: application/json, multipart/form-data, application/x-www-form-urlencoded, but got: (no content-type header)"


-----------------------------------------------------------------------------
(* Properties of requestSchema, checked under Spec *)

RequestRuns == {i \in DOMAIN runs : runs[i].kind = "requestSchema"}
Succeeded(i) == runs[i].pc = "done"
Rejected(i) == runs[i].pc = "failed"
RequestOf(i) == requests[runs[i].req]

\* the result fields that carry a facet, and the field whose presence shows
\* that the facet is in the result
FacetFields(facet) ==
    CASE facet = "searchParams" -> {"searchParamsObject"}
      [] facet = "body" -> {"body", "bodyObject"}
      [] facet = "headers" -> {"headers", "headersObj"}
      [] OTHER -> {facet}
PresenceFields(facet) == IF facet = "body" THEN {"body"} ELSE FacetFields(facet)

\* C1: a successful result carries url, every declared facet (for body: its
\* body field holds the stream reference or null) and nothing but undefined
\* in the fields of every facet that was not declared.
C1_Presence ==
    \A i \in RequestRuns :
        Succeeded(i) =>
            /\ runs[i].result.v.url.t = "URL"
            /\ \A facet \in Range(FacetNames) :
                  IF schemas[facet] # Undefined
                  THEN \A k \in PresenceFields(facet) : runs[i].result.v[k] # Undefined
                  ELSE \A k \in FacetFields(facet) : runs[i].result.v[k] = Undefined

C1_Witness ==
    \E i \in RequestRuns :
        /\ Succeeded(i)
        /\ schemas.searchParams # Undefined /\ schemas.body # Undefined
        /\ schemas.pathname # Undefined
        /\ schemas.headers = Undefined /\ schemas.method = Undefined
        /\ runs[i].result.v.searchParamsObject = Obj([tag |-> Str("a")])
        /\ runs[i].result.v.headers = Undefined

IsDecodeEvent(e) == StringStartsWith(e, "decode:") \/ e = "clone"

\* the stream reference of the request before anything has read it
InitialBody(request) == IF request.payload = NoPayload THEN Null ELSE Stream(1)

\* C6: with the body facet declared, every decode (or clone) of the request
\* by the body sub-validator comes after the read of the stream reference,
\* the captured reference is the request's stream as it was before any
\* decode, and a successful result's body field is that reference.
C6_CaptureBeforeDecode ==
    \A i \in RequestRuns :
        schemas.body # Undefined =>
            /\ \A p \in 1..Len(runs[i].log) :
                  IsDecodeEvent(runs[i].log[p]) =>
                      \E q \in 1..(p - 1) : runs[i].log[q] = "read:body"
            /\ runs[i].bpc # "off" => runs[i].originalBody = InitialBody(RequestOf(i))
            /\ Succeeded(i) =>
                  /\ runs[i].result.v.body = runs[i].originalBody
                  /\ runs[i].result.v.body = InitialBody(RequestOf(i))

C6_Witness ==
    \E i \in RequestRuns :
        /\ Succeeded(i)
        /\ schemas.body # Undefined
        /\ \E p \in 1..Len(runs[i].log) : runs[i].log[p] = "decode:json"
        /\ runs[i].result.v.body = Stream(1)

\* C7: after a success with the body facet declared, the stream in the
\* result's body field is the handle read before the body was consumed and
\* it is not a stream that has been read or locked.
C7_BodyNotDrained ==
    \A i \in RequestRuns :
        (Succeeded(i) /\ schemas.body # Undefined /\ runs[i].result.v.body # Null) =>
            /\ runs[i].result.v.body = InitialBody(RequestOf(i))
            /\ runs[i].result.v.body \notin RequestOf(i).disturbed

FacetEvents(i) ==
    LET IsFacet(e) == StringStartsWith(e, "facet:")
    IN SelectSeq(runs[i].log, IsFacet)

\* the declared facets in the order requestSchema evaluates them
DeclaredOrder ==
    LET IsDeclared(f) == schemas[f] # Undefined
        declared == SelectSeq(FacetNames, IsDeclared)
    IN [p \in 1..Len(declared) |-> "facet:" \o declared[p]]

IsPrefix(a, b) == Len(a) <= Len(b) /\ SubSeq(b, 1, Len(a)) = a

\* whether the request satisfies a declared facet, read off the request
FacetAccepts(facet, i) ==
    LET request == RequestOf(i)
    IN CASE facet = "facet:searchParams" -> request.url.search \in {"?tag=a", "?tag=a&extra=b"}
         [] facet = "facet:body" -> runs[i].bpc # "failed"
         [] facet = "facet:headers" ->
                \E p \in 1..Len(request.headers.entries) :
                    request.headers.entries[p][1] = "x-api-key"
         [] facet = "facet:method" -> request.method = "POST"
         [] facet = "facet:mode" -> request.mode = "cors"
         [] facet = "facet:protocol" -> request.url.protocol = "https:"
         [] facet = "facet:hostname" -> request.url.hostname = "example.com"
         [] facet = "facet:pathname" -> request.url.pathname = "/api"

\* C8: the facets are evaluated in the order searchParams, body, headers,
\* method, mode, protocol, hostname, pathname; the first one that fails ends
\* the call with its failure: no result, no later facet evaluated, and when
\* searchParams fails the body has not been read. A call that ends with a
\* result has evaluated every declared facet and none failed.
C8_FirstFailureAborts ==
    \A i \in RequestRuns :
        LET events == FacetEvents(i)
        IN /\ IsPrefix(events, DeclaredOrder)
           /\ \A p \in 1..(Len(events) - 1) : FacetAccepts(events[p], i)
           /\ runs[i].error # Undefined =>
                 \/ Rejected(i)
                 \/ runs[i].pc = "bodyAwait" /\ runs[i].bpc = "failed"
           /\ Rejected(i) =>
                 /\ runs[i].result = Undefined
                 /\ runs[i].error # Undefined
                 /\ events # <<>>
                 /\ ~FacetAccepts(events[Len(events)], i)
                 /\ events[Len(events)] = "facet:searchParams" =>
                       /\ \A p \in 1..Len(runs[i].log) : runs[i].log[p] # "read:body"
                       /\ RequestOf(i).disturbed = {}
           /\ Succeeded(i) =>
                 /\ events = DeclaredOrder
                 /\ \A p \in 1..Len(events) : FacetAccepts(events[p], i)
                 /\ runs[i].error = Undefined

C8_Witness ==
    \E i \in RequestRuns :
        /\ Rejected(i)
        /\ FacetEvents(i) = <<"facet:searchParams", "facet:body">>
        /\ schemas.headers # Undefined
        /\ schemas.mode # Undefined /\ RequestOf(i).mode = "no-cors"
        /\ runs[i].error = SyntaxError

\* C9: whenever the body facet is declared and the validation succeeds, the
\* result's bodyObject holds the validated body value and is not undefined.
C9_BodyObjectPopulated ==
    \A i \in RequestRuns :
        (Succeeded(i) /\ schemas.body # Undefined) =>
            /\ runs[i].result.v.bodyObject # Undefined
            /\ runs[i].result.v.bodyObject = runs[i].bodyValue


-----------------------------------------------------------------------------
(* Further properties of bodySchema, checked under SpecBody *)

AnyDeclared == Declared("json") \/ Declared("formData") \/ Declared("text")

\* the missing-body message of the branch whose content-type condition holds
MissingBodyMessage(i) ==
    IF JsonCondition(i) THEN "Request body is required for JSON schema"
    ELSE IF FormCondition(i) THEN "Request body is required for FormData schema"
    ELSE IF TextCondition(i) THEN "Request body is required for text schema"
    ELSE "Request body is required"

\* C11: with at least one category declared and a request without a body
\* stream, bodySchema fails, whatever the content type, with an Error whose
\* message starts with "Request body is required" and names the category of
\* the branch whose condition matched (none when no branch matched); nothing
\* was decoded or cloned and the request is untouched.
C11_MissingBody ==
    \A i \in BodyRuns :
        (Dispatched(i) /\ AnyDeclared /\ requests[runs[i].req].body = Null) =>
            /\ runs[i].bpc = "failed"
            /\ runs[i].bodyOut = Undefined
            /\ runs[i].error.name = "Error"
            /\ StringStartsWith(runs[i].error.message, "Request body is required")
            /\ runs[i].error.message = MissingBodyMessage(i)
            /\ runs[i].log = <<>>
            /\ requests[runs[i].req].disturbed = {}

C11_Witness ==
    \E i \in BodyRuns :
        /\ Dispatched(i)
        /\ requests[runs[i].req].body = Null
        /\ Declared("json") /\ Declared("formData")
        /\ ContentTypeOf(i) = "application/x-www-form-urlencoded"
        /\ runs[i].error = Error("Request body is required for FormData schema")

SentText(i) == requests[runs[i].req].payload.text

\* a finished validation of a request with a body, by a validator whose text
\* category is z.string(), under a content type that is empty or starts with
\* "text/"
TextRoundTripRun(i) ==
    /\ Finished(i) /\ HasBody(i)
    /\ Declared("text") /\ schemas.body.text = ZodString
    /\ TextCondition(i)

ReturnsText(i, str) ==
    /\ runs[i].bpc = "done"
    /\ runs[i].error = Undefined
    /\ runs[i].bodyOut = Obj([body |-> Str(str)])

\* C19 (as claimed): every string sent as the body of a request whose content
\* type is empty or starts with "text/" comes back unchanged as { body: s }
\* from a validator whose text category accepts every string.
C19_TextRoundTrip ==
    \A i \in BodyRuns : TextRoundTripRun(i) => ReturnsText(i, SentText(i))

\* C19 (amended): when the text branch is the one selected (no declared json
\* or form category claims the content type first), the validator returns
\* { body: s } with s unchanged for every sent string s that does not begin
\* with U+FEFF, the empty string, control characters and multi-byte
\* characters included; a string that begins with U+FEFF comes back without
\* that first character, because text() drops a leading byte order mark.
C19_TextRoundTripWithoutBOM ==
    \A i \in BodyRuns :
        (TextRoundTripRun(i) /\ ~JsonCondition(i) /\ ~FormCondition(i)) =>
            IF StringStartsWith(SentText(i), ByteOrderMark)
            THEN ReturnsText(i, SubSeq(SentText(i), 2, Len(SentText(i))))
            ELSE ReturnsText(i, SentText(i))

C19_Witness ==
    \E i \in BodyRuns :
        /\ TextRoundTripRun(i) /\ ~JsonCondition(i) /\ ~FormCondition(i)
        /\ ContentTypeOf(i) = "text/plain"
        /\ SentText(i) = "éü z"
        /\ Utf8Encode(SentText(i)) = <<195, 169, 195, 188, 32, 122>>
        /\ runs[i].log # <<>>
        /\ ReturnsText(i, "éü z")


\* a finished validation that took the url-encoded form branch
UrlencodedRun(i) ==
    /\ Finished(i) /\ HasBody(i)
    /\ FormCondition(i) /\ ~JsonCondition(i)
    /\ StringIncludes(ContentTypeOf(i), "application/x-www-form-urlencoded")

\* what the request's formData() gives, and whether it had read the body
\* when it failed (a mocked formData() rejects without reading)
FirstAttempt(i) ==
    IF RequestOf(i).host.mockFormData THEN Fail(MockedFormDataError)
    ELSE FormDataOf(RequestOf(i), ContentTypeOf(i))
FallbackFails(i) == ~RequestOf(i).host.mockFormData \/ RequestOf(i).host.mockText

\* the validation ended as the form shape decides on the field map
EndsAsValidated(i, fieldMap) ==
    LET parsed == ZodParse(schemas.body.formData, fieldMap)
    IN IF parsed.ok
       THEN runs[i].bpc = "done" /\ runs[i].bodyOut = Obj([body |-> parsed.value])
       ELSE runs[i].bpc = "failed" /\ runs[i].error = parsed.error

\* the key/value pairs of a url-encoded text, each key with its last value
LastValuesOfText(text) ==
    LET entries == URLSearchParamsOf(text).entries
        last(key) == CHOOSE n \in 1..Len(entries) :
                        /\ entries[n][1] = key
                        /\ \A m \in (n + 1)..Len(entries) : entries[m][1] # key
    IN Obj([key \in {entries[n][1] : n \in 1..Len(entries)} |-> Str(entries[last(key)][2])])

\* C23: in the url-encoded branch the request's formData() is called first;
\* the clone, its text and the url-encoded parse of that text come only
\* after formData() failed, and the validation then goes on with the field
\* map of the fallback; when the fallback fails as well (the clone or its
\* text throws) the error surfaced is the one of formData().
C23_UrlencodedFallback ==
    \A i \in BodyRuns :
        UrlencodedRun(i) =>
            /\ runs[i].log[1] = "decode:formData"
            /\ IF FirstAttempt(i).ok
               THEN /\ runs[i].log = <<"decode:formData", "parse:formData">>
                    /\ EndsAsValidated(i, FieldMapOfFormData(FirstAttempt(i).value))
               ELSE IF ~FallbackFails(i)
               THEN /\ runs[i].log = <<"decode:formData", "clone", "decode:cloneText",
                                       "parse:formData">>
                    /\ EndsAsValidated(i, LastValuesOfText(SentText(i)))
               ELSE /\ runs[i].bpc = "failed"
                    /\ runs[i].error = FirstAttempt(i).error
                    /\ runs[i].error \notin {MockedTextError, BodyUnusable}
                    /\ \A p \in 1..Len(runs[i].log) : runs[i].log[p] # "parse:formData"

C23_Witness ==
    \E i \in BodyRuns :
        /\ UrlencodedRun(i)
        /\ RequestOf(i).host.mockFormData /\ RequestOf(i).host.mockText
        /\ runs[i].log = <<"decode:formData", "clone", "decode:cloneText">>
        /\ runs[i].error = MockedFormDataError


\* a finished validation that took the multipart form branch
MultipartRun(i) ==
    /\ Finished(i) /\ HasBody(i)
    /\ FormCondition(i) /\ ~JsonCondition(i)
    /\ ~StringIncludes(ContentTypeOf(i), "application/x-www-form-urlencoded")

\* formData() of the request itself, and of the clone rebuilt without a
\* content-type header (a mock of the request's formData does not reach it)
OriginalAttempt(i) ==
    IF RequestOf(i).host.mockFormData THEN Fail(MockedFormDataError)
    ELSE FormDataOf(RequestOf(i), ContentTypeOf(i))
CloneAttempt(i) == FormDataOf(RequestOf(i), "")

EndsAsDecoded(i, attempt) ==
    IF attempt.ok THEN EndsAsValidated(i, FieldMapOfFormData(attempt.value))
    ELSE runs[i].bpc = "failed" /\ runs[i].error = attempt.error

LogWithout(i, event) == \A p \in 1..Len(runs[i].log) : runs[i].log[p] # event

\* C24: in the multipart branch, a content type without "boundary=" makes
\* bodySchema decode a clone rebuilt without the content-type header first;
\* the request itself is decoded with formData() only after that failed,
\* and then the outcome, an error included, is the one of this second
\* attempt. With a boundary the request is decoded directly, without clone.
C24_MultipartBoundary ==
    \A i \in BodyRuns :
        MultipartRun(i) =>
            IF StringIncludes(ContentTypeOf(i), "boundary=")
            THEN /\ LogWithout(i, "clone") /\ LogWithout(i, "decode:cloneFormData")
                 /\ runs[i].log[1] = "decode:formData"
                 /\ EndsAsDecoded(i, OriginalAttempt(i))
            ELSE /\ SubSeq(runs[i].log, 1, 2) = <<"clone", "decode:cloneFormData">>
                 /\ IF CloneAttempt(i).ok
                    THEN /\ LogWithout(i, "decode:formData")
                         /\ EndsAsDecoded(i, CloneAttempt(i))
                    ELSE /\ runs[i].log[3] = "decode:formData"
                         /\ EndsAsDecoded(i, OriginalAttempt(i))

C24_Witness ==
    \E i \in BodyRuns :
        /\ MultipartRun(i)
        /\ ContentTypeOf(i) = "multipart/form-data"
        /\ RequestOf(i).host.mockFormData
        /\ CloneAttempt(i) = Fail(NotFormData)
        /\ runs[i].log = <<"clone", "decode:cloneFormData", "decode:formData">>
        /\ runs[i].error = MockedFormDataError


-----------------------------------------------------------------------------
(* protocol.ts, http-method.ts, request-mode.ts: the closed sets and their
   literal builders *)

PROTOCOLS == <<"http", "https">>
HTTP_METHODS == <<"GET", "POST", "PUT", "PATCH", "DELETE", "HEAD", "OPTIONS">>
REQUEST_MODES == <<"same-origin", "no-cors", "cors", "navigate">>

Num(n) == [t |-> "number", v |-> n]
Bool(b) == [t |-> "boolean", v |-> b]

\* `${value}`: the string a template literal converts a value to (numbers
\* of one digit only)
TemplateString(value) ==
    CASE value.t = "string" -> value.v
      [] value.t = "undefined" -> "undefined"
      [] value.t = "null" -> "null"
      [] value.t = "number" -> SubSeq("0123456789", value.v + 1, value.v + 1)
      [] value.t = "boolean" -> IF value.v THEN "true" ELSE "false"
      [] value.t = "array" -> JoinStrings(value.v, ",")
      [] OTHER -> "[object Object]"

\* Array.prototype.includes on an array of strings
ArrayIncludes(array, value) ==
    value.t = "string" /\ \E i \in 1..Len(array) : array[i] = value.v

protocolSchema(protocol) ==
    IF ~ArrayIncludes(PROTOCOLS, protocol)
    THEN Fail(Error("Invalid protocol: \"" \o TemplateString(protocol) \o "\". Must be one of: "
                    \o JoinStrings(PROTOCOLS, ", ")))
    ELSE Ok(ZodLiteral(protocol.v))

\* Faulty variant: the membership check is left out
httpMethodSchema_Unchecked(method) == Ok(ZodLiteral(TemplateString(method)))

httpMethodSchema(method) ==
    IF ~ArrayIncludes(HTTP_METHODS, method)
    THEN Fail(Error("Invalid HTTP method: \"" \o TemplateString(method) \o "\". Must be one of: "
                    \o JoinStrings(HTTP_METHODS, ", ")))
    ELSE Ok(ZodLiteral(method.v))

requestModeSchema(mode) ==
    IF ~ArrayIncludes(REQUEST_MODES, mode)
    THEN Fail(Error("Invalid Request mode: \"" \o TemplateString(mode) \o "\". Must be one of: "
                    \o JoinStrings(REQUEST_MODES, ", ")))
    ELSE Ok(ZodLiteral(mode.v))

protocolEnumSchema == ZodEnum(PROTOCOLS)
httpMethodEnumSchema == ZodEnum(HTTP_METHODS)
requestModeEnumSchema == ZodEnum(REQUEST_MODES)

-----------------------------------------------------------------------------
(* search-params-schema.ts, headers-schema.ts: the preprocess functions *)

\* typeof val === "object" for a non-null value
IsObject(val) == val.t \in {"object", "array", "URLSearchParams", "Headers"}

\* "get" in val && typeof val.get === "function"
HasGetFunction(val) ==
    \/ val.t \in {"URLSearchParams", "Headers"}
    \/ val.t = "object" /\ "get" \in DOMAIN val /\ val.get = "function"

\* Faulty variant: every object is taken for a source, with or without get
SearchParamsSource_AnyObject(val) ==
    IF val = Null \/ val = Undefined THEN Fail(Error(ERROR_EXPECTED_URL_SEARCH_PARAMS))
    ELSE IF val.t = "string" THEN Ok(URLSearchParamsOf(val.v))
    ELSE IF IsObject(val)
    THEN Ok(IF HasGetFunction(val) THEN val ELSE [kind |-> "get", entries |-> <<>>])
    ELSE Fail(Error(ERROR_EXPECTED_URL_SEARCH_PARAMS))

\* search-params-schema.ts: the source the preprocess function extracts from
SearchParamsSource(val) ==
    IF val = Null \/ val = Undefined THEN Fail(Error(ERROR_EXPECTED_URL_SEARCH_PARAMS))
    ELSE IF val.t = "string" THEN Ok(URLSearchParamsOf(val.v))
    ELSE IF val.t = "URLSearchParams" THEN Ok(val)
    ELSE IF IsObject(val)
    THEN (IF HasGetFunction(val) THEN Ok(val)
          ELSE Fail(Error(ERROR_EXPECTED_URL_SEARCH_PARAMS)))
    ELSE Fail(Error(ERROR_EXPECTED_URL_SEARCH_PARAMS))

\* Faulty variant: a string is read as a header block
HeadersSource_AcceptString(val) ==
    IF val = Null \/ val = Undefined THEN Fail(Error(ERROR_EXPECTED_HEADERS))
    ELSE IF val.t = "string" THEN Ok([kind |-> "get", entries |-> <<>>])
    ELSE IF val.t = "Headers" THEN Ok(val)
    ELSE IF IsObject(val) /\ HasGetFunction(val) THEN Ok(val)
    ELSE Fail(Error(ERROR_EXPECTED_HEADERS))

\* headers-schema.ts: the store the preprocess function reads
HeadersSource(val) ==
    IF val = Null \/ val = Undefined THEN Fail(Error(ERROR_EXPECTED_HEADERS))
    ELSE IF val.t = "Headers" THEN Ok(val)
    ELSE IF IsObject(val)
    THEN (IF HasGetFunction(val) THEN Ok(val) ELSE Fail(Error(ERROR_EXPECTED_HEADERS)))
    ELSE Fail(Error(ERROR_EXPECTED_HEADERS))

\* searchParamsSchema(schema).parse(val): preprocess, then the schema
SearchParamsParse(pipe, val) ==
    LET source == SearchParamsSource(val)
        obj == extractSearchParamsObject(source.value, pipe.out.shape)
    IN IF ~source.ok THEN source
       ELSE IF ~obj.ok THEN obj
       ELSE ZodParse(pipe.out, Obj(obj.value))

\* headersSchema(schema).parse(val): preprocess, then the schema
HeadersParse(pipe, val) ==
    LET source == HeadersSource(val)
    IN IF ~source.ok THEN source
       ELSE ZodParse(pipe.out, Obj(extractHeadersObject(source.value, pipe.out.shape)))


-----------------------------------------------------------------------------
(* Direct use of the builders and of the validators they return: a validator
   is constructed and, when construction returned, handed one input *)

\* the builders of the simple validators and the facet each one is for
LiteralBuilders == {"protocolSchema", "httpMethodSchema", "requestModeSchema"}
EnumSchemas == {"protocolEnumSchema", "httpMethodEnumSchema", "requestModeEnumSchema"}
FacetOfBuilder(fn) ==
    CASE fn \in {"protocolSchema", "protocolEnumSchema"} -> "protocol"
      [] fn \in {"httpMethodSchema", "httpMethodEnumSchema"} -> "method"
      [] fn \in {"requestModeSchema", "requestModeEnumSchema"} -> "mode"
      [] fn = "searchParamsSchema" -> "searchParams"
      [] fn = "headersSchema" -> "headers"
      [] fn = "bodySchema" -> "body"

\* strings near the members: case variants, padded, extended, cut, empty
NearMisses == {"", "get", "Get", "GET ", " GET", "GETS", "GE", "HTTP", "https:", "htt",
               "CORS", "cors ", "no_cors", "INVALID"}
MemberStrings == Range(PROTOCOLS) \cup Range(HTTP_METHODS) \cup Range(REQUEST_MODES)

\* values that are no strings
NonStrings == {Null, Undefined, Num(0), Num(1), Bool(TRUE), Obj(EmptyRecord),
               Obj([value |-> Str("GET")]), Arr(<<>>), Arr(<<"GET">>), Arr(<<"http", "https">>)}
SimpleValues == {Str(x) : x \in MemberStrings \cup NearMisses} \cup NonStrings

\* what a literal builder may be handed, and what a validator may be handed
BuilderArguments == {Str(x) : x \in MemberStrings \cup {"", "get", "INVALID", "GET "}}
                    \cup {Null, Undefined, Num(1), Arr(<<"GET">>), Obj(EmptyRecord)}

\* the inputs of searchParamsSchema(...).parse and headersSchema(...).parse
PipeEntries == {<<>>, <<<<"tag", "a">>>>, <<<<"tag", "a">>, <<"tag", "b">>>>,
                <<<<"extra", "b">>, <<"tag", "a">>>>}
PipeInputs ==
    {Null, Undefined, Num(1), Bool(TRUE), Bool(FALSE), Obj(EmptyRecord),
     Obj([tag |-> Str("a")]), Obj([get |-> Str("a")]), Arr(<<>>), Arr(<<"tag=a">>)}
    \cup {Str(x) : x \in {"", "?", "tag=a", "?tag=a", "?tag=a&tag=b", "extra=b&tag=a", "tag: a"}}
    \cup {[t |-> "URLSearchParams", kind |-> "URLSearchParams", entries |-> e] : e \in PipeEntries}
    \cup {[t |-> "Headers", kind |-> "Headers", entries |-> e] : e \in PipeEntries}
    \cup {[t |-> "object", get |-> g, kind |-> k, entries |-> e] :
              g \in {"function", "string"}, k \in {"getAll", "get"}, e \in PipeEntries}
PipeShapes == {ZodObject(<<Entry("tag", f)>>) :
                  f \in {ZodString, ZodArray, ZodOptional(ZodString)}}

\* protocolSchema(arg), httpMethodSchema(arg), requestModeSchema(arg): the
\* builder throws or returns the validator
CallLiteralBuilder ==
    /\ call.fn \in LiteralBuilders
    /\ call.step = "construct"
    /\ LET built == CASE call.fn = "protocolSchema" -> protocolSchema(call.arg)
                      [] call.fn = "httpMethodSchema" -> httpMethodSchema(call.arg)
                      [] call.fn = "requestModeSchema" -> requestModeSchema(call.arg)
       IN IF built.ok
          THEN /\ schemas' = [schemas EXCEPT ![FacetOfBuilder(call.fn)] = built.value]
               /\ call' = [call EXCEPT !.step = "parse"]
               /\ ret' = ret
          ELSE /\ ret' = built
               /\ call' = [call EXCEPT !.step = "end"]
               /\ schemas' = schemas
    /\ UNCHANGED <<requests, runs>>

\* the enum validators are module constants
UseEnumSchema ==
    /\ call.fn \in EnumSchemas
    /\ call.step = "construct"
    /\ schemas' = [schemas EXCEPT ![FacetOfBuilder(call.fn)] =
                      CASE call.fn = "protocolEnumSchema" -> protocolEnumSchema
                        [] call.fn = "httpMethodEnumSchema" -> httpMethodEnumSchema
                        [] call.fn = "requestModeEnumSchema" -> requestModeEnumSchema]
    /\ call' = [call EXCEPT !.step = "parse"]
    /\ UNCHANGED <<ret, requests, runs>>

\* bodySchema(schemas): construction returns the validator
CallBodySchema ==
    /\ call.fn = "bodySchema"
    /\ call.step = "construct"
    /\ schemas' = [schemas EXCEPT !.body = bodySchema(call.arg.json, call.arg.formData,
                                                      call.arg.text)]
    /\ ret' = Ok(schemas'.body)
    /\ call' = [call EXCEPT !.step = "end"]
    /\ UNCHANGED <<requests, runs>>

\* searchParamsSchema(schema), headersSchema(schema): construction returns
\* the preprocessed schema
CallPipeBuilder ==
    /\ call.fn \in {"searchParamsSchema", "headersSchema"}
    /\ call.step = "construct"
    /\ schemas' = [schemas EXCEPT ![FacetOfBuilder(call.fn)] =
                      IF call.fn = "searchParamsSchema" THEN searchParamsSchema(call.arg)
                      ELSE headersSchema(call.arg)]
    /\ call' = [call EXCEPT !.step = "parse"]
    /\ UNCHANGED <<ret, requests, runs>>

\* validator.parse(input) of a literal or enum validator
ParseSimple ==
    /\ call.fn \in LiteralBuilders \cup EnumSchemas
    /\ call.step = "parse"
    /\ ret' = ZodParse(schemas[FacetOfBuilder(call.fn)], call.input)
    /\ call' = [call EXCEPT !.step = "end"]
    /\ UNCHANGED <<schemas, requests, runs>>

\* searchParamsSchema(schema).parse(input); source records what the
\* extraction was run on
ParseSearchParams ==
    /\ call.fn = "searchParamsSchema"
    /\ call.step = "parse"
    /\ ret' = SearchParamsParse(schemas.searchParams, call.input)
    /\ call' = [call EXCEPT !.step = "end",
                            !.source = IF SearchParamsSource(call.input).ok
                                       THEN SearchParamsSource(call.input).value
                                       ELSE Undefined]
    /\ UNCHANGED <<schemas, requests, runs>>

\* headersSchema(schema).parse(input)
ParseHeaders ==
    /\ call.fn = "headersSchema"
    /\ call.step = "parse"
    /\ ret' = HeadersParse(schemas.headers, call.input)
    /\ call' = [call EXCEPT !.step = "end",
                            !.source = IF HeadersSource(call.input).ok
                                       THEN HeadersSource(call.input).value
                                       ELSE Undefined]
    /\ UNCHANGED <<schemas, requests, runs>>

InitBuild ==
    /\ \/ \E fn \in LiteralBuilders, arg \in BuilderArguments, input \in SimpleValues :
            call = [fn |-> fn, step |-> "construct", arg |-> arg, input |-> input]
       \/ \E fn \in EnumSchemas, input \in SimpleValues :
            call = [fn |-> fn, step |-> "construct", arg |-> Undefined, input |-> input]
       \/ \E b \in BodySchemas :
            call = [fn |-> "bodySchema", step |-> "construct", arg |-> b, input |-> Undefined]
       \/ \E shape \in PipeShapes, input \in PipeInputs :
            /\ input.t # "Headers"
            /\ call = [fn |-> "searchParamsSchema", step |-> "construct", arg |-> shape,
                       input |-> input, source |-> Undefined]
       \/ \E shape \in PipeShapes, input \in PipeInputs :
            call = [fn |-> "headersSchema", step |-> "construct", arg |-> shape,
                    input |-> input, source |-> Undefined]
    /\ ret = Pending
    /\ schemas = NoSchemas
    /\ requests = <<>>
    /\ runs = <<>>

NextBuild ==
    \/ CallLiteralBuilder
    \/ UseEnumSchema
    \/ CallBodySchema
    \/ CallPipeBuilder
    \/ ParseSimple
    \/ ParseSearchParams
    \/ ParseHeaders

SpecBuild == InitBuild /\ [][NextBuild]_vars


-----------------------------------------------------------------------------
(* Properties of the builders and their validators, checked under SpecBuild *)

Constructed == call.step # "construct"
Parsed == call.step = "end" /\ call.fn # "bodySchema" /\ schemas[FacetOfBuilder(call.fn)] # Undefined

\* C13: constructing a body validator with no category throws "At least one
\* schema must be provided".
C13_EmptyConstructionThrows ==
    (call.fn = "bodySchema" /\ Constructed
     /\ call.arg.json = Undefined /\ call.arg.formData = Undefined /\ call.arg.text = Undefined)
        => ret = Fail(Error("At least one schema must be provided"))

C13_Witness ==
    /\ call.fn = "bodySchema" /\ Constructed
    /\ call.arg = bodySchema(Undefined, Undefined, Undefined)
    /\ ret.ok
    /\ schemas.body = call.arg

\* the members of each closed set, as the error message lists them
MemberList(facet) ==
    CASE facet = "protocol" -> "http, https"
      [] facet = "method" -> "GET, POST, PUT, PATCH, DELETE, HEAD, OPTIONS"
      [] facet = "mode" -> "same-origin, no-cors, cors, navigate"
MemberSet(facet) ==
    CASE facet = "protocol" -> {"http", "https"}
      [] facet = "method" -> {"GET", "POST", "PUT", "PATCH", "DELETE", "HEAD", "OPTIONS"}
      [] facet = "mode" -> {"same-origin", "no-cors", "cors", "navigate"}
InvalidLabel(fn) ==
    CASE fn = "protocolSchema" -> "Invalid protocol: "
      [] fn = "httpMethodSchema" -> "Invalid HTTP method: "
      [] fn = "requestModeSchema" -> "Invalid Request mode: "
IsMember(facet, value) == value.t = "string" /\ value.v \in MemberSet(facet)

\* C17: a literal builder throws at construction exactly when its argument
\* is no member of its closed set; the message quotes the argument and lists
\* the members in declaration order; for a member the builder returns the
\* literal validator of that member and does not throw.
C17_LiteralBuilder ==
    (call.fn \in LiteralBuilders /\ Constructed) =>
        LET facet == FacetOfBuilder(call.fn)
        IN IF IsMember(facet, call.arg)
           THEN /\ schemas[facet] = ZodLiteral(call.arg.v)
                /\ ret = Pending \/ ret.ok \/ ret.error.name = "ZodError"
           ELSE /\ schemas[facet] = Undefined
                /\ call.step = "end"
                /\ ret = Fail(Error(InvalidLabel(call.fn) \o "\"" \o TemplateString(call.arg)
                                    \o "\". Must be one of: " \o MemberList(facet)))

C17_Witness ==
    /\ call.fn = "httpMethodSchema" /\ Constructed
    /\ call.arg = Str("get")
    /\ ret = Fail(Error("Invalid HTTP method: \"get\". Must be one of: GET, POST, PUT, PATCH, DELETE, HEAD, OPTIONS"))

\* C18: an enum validator accepts exactly the strings of its closed set, the
\* literal validator of member v accepts exactly v; every other value (other
\* members, case variants, padded or extended strings, the empty string,
\* null, undefined, numbers, objects, arrays) is rejected with a validation
\* error, and an accepted value is returned unchanged.
C18_EnumAndLiteral ==
    (call.fn \in LiteralBuilders \cup EnumSchemas /\ Parsed) =>
        LET facet == FacetOfBuilder(call.fn)
            accepted == IF call.fn \in EnumSchemas THEN IsMember(facet, call.input)
                        ELSE call.input.t = "string" /\ call.input.v = call.arg.v
        IN IF accepted THEN ret = Ok(call.input)
           ELSE ~ret.ok /\ ret.error.name = "ZodError"

C18_Witness ==
    /\ call.fn = "httpMethodEnumSchema" /\ Parsed
    /\ call.input = Str("GET ")
    /\ ~ret.ok

\* the outcome of extracting from a source and validating the extracted map
FromParamsSource(source) ==
    LET obj == extractSearchParamsObject(source, call.arg.shape)
    IN IF obj.ok THEN ZodParse(call.arg, Obj(obj.value)) ELSE obj

\* C15: searchParamsSchema fails with "Expected URLSearchParams or string"
\* on null and undefined; parses every string, the empty one and one with a
\* leading "?" included, as a query string; uses an object that exposes a
\* get function as the source itself; fails with the same error on every
\* other value; a failing input is not extracted from.
C15_SearchParamsInput ==
    (call.fn = "searchParamsSchema" /\ call.step = "end") =>
        LET input == call.input
            expected == Fail(Error("Expected URLSearchParams or string"))
        IN CASE input \in {Null, Undefined} -> ret = expected /\ call.source = Undefined
             [] input.t = "string" ->
                   /\ call.source = URLSearchParamsOf(input.v)
                   /\ ret = FromParamsSource(call.source)
                   /\ input.v \in {"", "?"} => call.source.entries = <<>>
                   /\ input.v \in {"tag=a", "?tag=a"} => call.source.entries = <<<<"tag", "a">>>>
             [] HasGetFunction(input) ->
                   call.source = input /\ ret = FromParamsSource(input)
             [] OTHER -> ret = expected /\ call.source = Undefined

C15_Witness ==
    /\ call.fn = "searchParamsSchema" /\ call.step = "end"
    /\ call.input = Str("?tag=a")
    /\ call.arg = ZodObject(<<Entry("tag", ZodString)>>)
    /\ ret = Ok(Obj([tag |-> Str("a")]))

\* C16: headersSchema accepts a native Headers object and an object that
\* exposes a get function, and nothing else: null, undefined, every string
\* and other non-object and every object without a get function fail with
\* "Expected Headers", and no header is read from them.
C16_HeadersInput ==
    (call.fn = "headersSchema" /\ call.step = "end") =>
        LET input == call.input
        IN IF input.t = "Headers" \/ HasGetFunction(input)
           THEN /\ call.source = input
                /\ ret = ZodParse(call.arg, Obj(extractHeadersObject(input, call.arg.shape)))
           ELSE /\ ret = Fail(Error("Expected Headers"))
                /\ call.source = Undefined

C16_Witness ==
    /\ call.fn = "headersSchema" /\ call.step = "end"
    /\ call.input = Str("tag: a")
    /\ ret = Fail(Error("Expected Headers"))


-----------------------------------------------------------------------------
(* requestSchema and bodySchema handed a value that is no Request *)

\* a plain object with the fields of a Request
RequestLikeObject ==
    [RequestOfPlan(BaseRequest) EXCEPT !.t = "object"]

NonRequests == {Null, Undefined, Str("https://example.com/api?tag=a"), Num(1), Bool(TRUE),
                Obj(EmptyRecord), Arr(<<>>), ExampleUrl,
                [t |-> "Headers", kind |-> "Headers", entries |-> <<>>],
                RequestLikeObject}

InitNonRequest ==
    /\ call = NoCall
    /\ ret = Pending
    /\ \E v \in NonRequests : requests = <<v>>
    /\ \/ /\ \E c \in Configs : schemas = c
          /\ runs = <<NewRun("requestSchema", 1)>>
       \/ /\ \E b \in BodySchemas : schemas = [NoSchemas EXCEPT !.body = b]
          /\ runs = <<NewRun("bodySchema", 1)>>

NextNonRequest ==
    \/ \E i \in DOMAIN runs : RequestStart(i)
    \/ \E i \in DOMAIN runs : BodyDispatch(i)

SpecNonRequest == InitNonRequest /\ [][NextNonRequest]_vars

\* C14: on an input that is no Request, requestSchema and bodySchema fail
\* with Error("Expected Request"); no URL was parsed, no header and no body
\* read, no declared facet or category evaluated, no result produced.
C14_ExpectedRequest ==
    \A i \in DOMAIN runs :
        (requests[runs[i].req].t # "Request" /\ runs[i].pc # "start" /\ runs[i].bpc # "start") =>
            /\ runs[i].error = Error("Expected Request")
            /\ runs[i].kind = "requestSchema" => runs[i].pc = "failed"
            /\ runs[i].kind = "bodySchema" => runs[i].bpc = "failed"
            /\ runs[i].log = <<>>
            /\ runs[i].urlObj = Undefined
            /\ runs[i].contentType = ""
            /\ runs[i].originalBody = Undefined
            /\ runs[i].searchParamsObject = Undefined /\ runs[i].headersObject = Undefined
            /\ runs[i].result = Undefined /\ runs[i].bodyOut = Undefined

C14_Witness ==
    \E i \in DOMAIN runs :
        /\ runs[i].kind = "requestSchema"
        /\ requests[runs[i].req] = RequestLikeObject
        /\ schemas.searchParams # Undefined /\ schemas.body # Undefined
        /\ runs[i].pc = "failed"
        /\ runs[i].error = Error("Expected Request")


-----------------------------------------------------------------------------
(* One validator used by two validations that interleave at their awaits *)

\* the request object number k: its own body stream and its own URL object
RequestObject(plan, k) ==
    [RequestOfPlan(plan) EXCEPT
        !.body = IF @ = Null THEN Null ELSE Stream(10 * k + 1),
        !.url.hash = IF k = 1 THEN "#1" ELSE "#2"]

\* the validations that interleave, and for each the reference validation:
\* the same validator on a request of the same content, run while no other
\* validation is in flight
Interleaved == {1, 2}
Alone(i) == i + 2

RunFinished(i) ==
    IF runs[i].kind = "requestSchema" THEN runs[i].pc \in {"done", "failed"}
    ELSE runs[i].bpc \in {"done", "failed"}

\* the reference validations run first, one after the other; the interleaved
\* ones are then free to take their steps in any order
Schedulable(i) ==
    IF i \in Interleaved
    THEN \A j \in DOMAIN runs \ Interleaved : RunFinished(j)
    ELSE \A j \in DOMAIN runs \ Interleaved : j < i => RunFinished(j)

ConcurrentConfigs ==
    {[f \in Range(FacetNames) |->
         IF f = "body" THEN b
         ELSE IF f \in declared THEN DeclaredFacet(f) ELSE Undefined] :
     declared \in {Range(FacetNames) \ {"body"}, {"searchParams"}, {}},
     b \in ConfigBodies}

SecondPlans ==
    {BaseRequest,
     [BaseRequest EXCEPT !.url.search = ""],
     [BaseRequest EXCEPT !.contentType = "application/x-www-form-urlencoded",
                         !.payload = FormPayload, !.host = Host(TRUE, FALSE, FALSE)]}

InitConcurrent ==
    /\ call = NoCall
    /\ ret = Pending
    /\ \E first \in RequestPlans, second \in SecondPlans :
          requests = <<RequestObject(first, 1), RequestObject(second, 2),
                       RequestObject(first, 1), RequestObject(second, 2)>>
    /\ \/ /\ \E c \in ConcurrentConfigs : schemas = c
          /\ runs = [i \in 1..4 |-> NewRun("requestSchema", i)]
       \/ /\ \E b \in ConfigBodies : schemas = [NoSchemas EXCEPT !.body = b]
          /\ runs = [i \in 1..4 |-> NewRun("bodySchema", i)]

NextConcurrent ==
    \/ \E i \in DOMAIN runs : Schedulable(i) /\ RequestStart(i)
    \/ \E i \in DOMAIN runs : Schedulable(i) /\ ProcessSearchParams(i)
    \/ \E i \in DOMAIN runs : Schedulable(i) /\ ProcessBody(i)
    \/ \E i \in DOMAIN runs : Schedulable(i) /\ BodyDispatch(i)
    \/ \E i \in DOMAIN runs : Schedulable(i) /\ BodyJson(i)
    \/ \E i \in DOMAIN runs : Schedulable(i) /\ BodyFormUrlencoded(i)
    \/ \E i \in DOMAIN runs : Schedulable(i) /\ BodyFormFallbackText(i)
    \/ \E i \in DOMAIN runs : Schedulable(i) /\ BodyFormClone(i)
    \/ \E i \in DOMAIN runs : Schedulable(i) /\ BodyFormOriginal(i)
    \/ \E i \in DOMAIN runs : Schedulable(i) /\ BodyFormData(i)
    \/ \E i \in DOMAIN runs : Schedulable(i) /\ BodyText(i)
    \/ \E i \in DOMAIN runs : Schedulable(i) /\ ProcessBodyReturn(i)
    \/ \E i \in DOMAIN runs : Schedulable(i) /\ ProcessHeaders(i)
    \/ \E i \in DOMAIN runs : Schedulable(i) /\ ProcessSimpleField(i)
    \/ \E i \in DOMAIN runs : Schedulable(i) /\ Return(i)

SpecConcurrent == InitConcurrent /\ [][NextConcurrent]_vars

\* the request object a validation was handed
OwnerOf(i) == IF i \in {1, Alone(1)} THEN 1 ELSE 2
IsOwnStream(stream, i) == stream.h \div 10 = OwnerOf(i)

\* everything a validation holds was taken from its own request
HoldsOwnFields(i) ==
    LET run == runs[i]
        request == requests[run.req]
    IN /\ run.req = i
       /\ run.urlObj # Undefined => run.urlObj = request.url
       /\ run.originalHeaders # Undefined => run.originalHeaders = request.headers
       /\ run.originalBody \notin {Undefined, Null} => IsOwnStream(run.originalBody, i)
       /\ request.body # Null => IsOwnStream(request.body, i)
       /\ \A stream \in request.disturbed : IsOwnStream(stream, i)

\* a finished validation ended as its reference did: same result or error,
\* same intermediate values, same log, and its request in the same state
SameAsAlone(i) ==
    RunFinished(i) =>
        /\ runs[i] = [runs[Alone(i)] EXCEPT !.req = i]
        /\ requests[i] = requests[Alone(i)]

\* a step of one validation leaves the other validations, their requests and
\* the validator's configuration as they were
StepIsLocal ==
    /\ schemas' = schemas
    /\ \A i \in DOMAIN runs :
          (runs'[i] # runs[i] \/ requests'[i] # requests[i]) =>
              \A j \in DOMAIN runs \ {i} :
                  runs'[j] = runs[j] /\ requests'[j] = requests[j]

\* C20: two validations by one validator (requestSchema or bodySchema) of
\* two distinct requests, interleaved at their awaits in every possible
\* order, each end exactly as the same validation run alone; each holds
\* only values of its own request, no step touches the state or the request
\* of another validation, and the configuration never changes.
C20_Concurrent ==
    /\ [](\A i \in DOMAIN runs : HoldsOwnFields(i))
    /\ [](\A i \in Interleaved : SameAsAlone(i))
    /\ [][StepIsLocal]_vars

C20_Witness ==
    /\ runs[1].kind = "requestSchema"
    /\ schemas.searchParams # Undefined /\ schemas.body # Undefined
    /\ runs[1].pc = "done"
    /\ runs[1].result.v.body = Stream(11)
    /\ runs[1].result.v.url.hash = "#1"
    /\ runs[1] = [runs[Alone(1)] EXCEPT !.req = 1]
    /\ runs[2].pc = "bodyAwait"
    /\ runs[2].bpc = "formFallbackText"
    /\ runs[2].originalBody = Stream(21)
    /\ Stream(21) \in requests[2].disturbed
    /\ requests[1].disturbed = {Stream(11)}


-----------------------------------------------------------------------------
(* requestSchema with sub-validators that transform: the facets other than
   body, each compared with its validator used on its own *)

\* the search-params and headers sub-validators a config may declare
FacetPipes(name) ==
    IF name = "searchParams"
    THEN {searchParamsSchema(ZodObject(<<Entry("tag", ZodString)>>)),
          searchParamsSchema(ZodObject(<<Entry("tag", ZodTransform(ZodString, "toUpperCase"))>>)),
          searchParamsSchema(ZodObject(<<Entry("age", ZodTransform(ZodString, "Number")),
                                         Entry("tag", ZodOptional(ZodArray))>>))}
    ELSE {headersSchema(ZodObject(<<Entry("x-api-key", ZodString)>>)),
          headersSchema(ZodObject(<<Entry("x-api-version",
                                          ZodTransform(ZodString, "Number"))>>))}

\* the validators a simple field may be declared with
SimpleValidators(field) ==
    CASE field = "method" -> {ZodLiteral("POST"), ZodEnum(HTTP_METHODS),
                              ZodTransform(ZodLiteral("POST"), "toLowerCase")}
      [] field = "mode" -> {ZodLiteral("cors"), ZodEnum(REQUEST_MODES)}
      [] field = "protocol" -> {ZodLiteral("https"), ZodEnum(PROTOCOLS),
                                ZodTransform(ZodEnum(PROTOCOLS), "toUpperCase")}
      [] field = "hostname" -> {ZodLiteral("example.com"),
                                ZodTransform(ZodString, "toUpperCase")}
      [] field = "pathname" -> {ZodString, ZodTransform(ZodString, "Number")}

\* configs without a body facet: any search-params and headers
\* sub-validator, and at most one simple field
FacetConfigs ==
    {[NoSchemas EXCEPT !.searchParams = sp, !.headers = h] :
        sp \in FacetPipes("searchParams") \cup {Undefined},
        h \in FacetPipes("headers") \cup {Undefined}}
    \cup
    UNION {{[NoSchemas EXCEPT !.searchParams = sp, ![field] = validator] :
                sp \in {Undefined, searchParamsSchema(ZodObject(<<Entry("tag", ZodString)>>))},
                validator \in SimpleValidators(field)} :
           field \in Range(SimpleFields)}

FacetUrls ==
    {[ExampleUrl EXCEPT !.search = search, !.pathname = pathname, !.port = port,
                        !.protocol = protocol, !.hash = hash] :
        search \in {"", "?tag=a", "?tag=a&tag=b", "?age=30", "?age=x&tag=a"},
        pathname \in {"/api", "/42"},
        port \in {"", "8080"},
        protocol \in {"https:", "http:"},
        hash \in {"", "#top"}}

FacetRequests ==
    {MakeRequest(url, method, "cors", headerEntries, NoPayload, Host(FALSE, FALSE, FALSE)) :
        url \in FacetUrls,
        method \in {"GET", "POST"},
        headerEntries \in {<<>>, <<<<"x-api-key", "k">>>>, <<<<"x-api-version", "2">>>>}}

InitFacets ==
    /\ call = NoCall
    /\ ret = Pending
    /\ \E c \in FacetConfigs : schemas = c
    /\ \E request \in FacetRequests : requests = <<request>>
    /\ runs = <<NewRun("requestSchema", 1)>>

NextFacets ==
    \/ \E i \in DOMAIN runs : RequestStart(i)
    \/ \E i \in DOMAIN runs : ProcessSearchParams(i)
    \/ \E i \in DOMAIN runs : ProcessBody(i)
    \/ \E i \in DOMAIN runs : ProcessHeaders(i)
    \/ \E i \in DOMAIN runs : ProcessSimpleField(i)
    \/ \E i \in DOMAIN runs : Return(i)

SpecFacets == InitFacets /\ [][NextFacets]_vars

RunEnded(i) == runs[i].pc \in {"done", "failed"}

ResultFields ==
    {"url", "searchParamsObject", "body", "bodyObject", "headers", "headersObj",
     "method", "mode", "protocol", "hostname", "pathname"}

\* the result fields named by the issues of a rejection by the result schema
ResultIssueFields(i) ==
    IF Rejected(i) /\ runs[i].error.name = "ZodError"
    THEN {runs[i].error.issues[n].path[1] :
             n \in {m \in 1..Len(runs[i].error.issues) :
                        /\ Len(runs[i].error.issues[m].path) >= 1
                        /\ runs[i].error.issues[m].path[1] \in ResultFields}}
    ELSE {}

\* the validation was rejected because of the facet: by the facet's own step,
\* or by the result schema on a field of the facet
FailsOnFacet(i, facet) ==
    /\ Rejected(i)
    /\ IF ResultIssueFields(i) # {}
       THEN ResultIssueFields(i) \cap FacetFields(facet) # {}
       ELSE /\ FacetEvents(i) # <<>>
            /\ FacetEvents(i)[Len(FacetEvents(i))] = "facet:" \o facet

FacetEvaluated(i, facet) ==
    \E p \in 1..Len(runs[i].log) : runs[i].log[p] = "facet:" \o facet

\* the stand-alone sub-validators on what the request gives them
AloneSearchParams(i) ==
    SearchParamsParse(schemas.searchParams, Str(RequestOf(i).url.search))
AloneHeaders(i) == HeadersParse(schemas.headers, RequestOf(i).headers)

\* C21: for a declared search-params (headers) facet that the composite
\* validation evaluates, the validation is rejected because of that facet if
\* and only if searchParamsSchema on the query string (headersSchema on the
\* request's headers) fails, and a result's searchParamsObject (headersObj)
\* is the stand-alone validator's output, transformed fields included.
C21_FacetRefinement ==
    \A i \in RequestRuns :
        RunEnded(i) =>
            /\ (schemas.searchParams # Undefined /\ FacetEvaluated(i, "searchParams")) =>
                  /\ FailsOnFacet(i, "searchParams") <=> ~AloneSearchParams(i).ok
                  /\ Succeeded(i) =>
                        runs[i].result.v.searchParamsObject = AloneSearchParams(i).value
            /\ (schemas.headers # Undefined /\ FacetEvaluated(i, "headers")) =>
                  /\ FailsOnFacet(i, "headers") <=> ~AloneHeaders(i).ok
                  /\ Succeeded(i) => runs[i].result.v.headersObj = AloneHeaders(i).value

\* the stand-alone validator gives { age: 30 } and the composite validation
\* is rejected by the result schema, which validates that output once more
C21_Witness ==
    \E i \in RequestRuns :
        /\ Rejected(i)
        /\ schemas.searchParams # Undefined
        /\ RequestOf(i).url.search = "?age=30"
        /\ AloneSearchParams(i).ok
        /\ AloneSearchParams(i).value.v.age = [t |-> "number", v |-> 30]
        /\ runs[i].searchParamsObject = AloneSearchParams(i).value
        /\ runs[i].error.name = "ZodError"
        /\ runs[i].error.issues[1].path = <<"searchParamsObject", "age">>

\* the string a simple field is about, read off the request
DerivedString(field, request) ==
    CASE field = "method" -> request.method
      [] field = "mode" -> request.mode
      [] field = "protocol" -> SubSeq(request.url.protocol, 1, Len(request.url.protocol) - 1)
      [] field = "hostname" -> request.url.hostname
      [] field = "pathname" -> request.url.pathname

\* the declared validator of a simple field on that string
AloneSimple(i, field) == ZodParse(schemas[field], Str(DerivedString(field, RequestOf(i))))

\* C22: for each declared simple field that the composite validation
\* evaluates, the validation is rejected because of that field if and only
\* if the declared validator rejects the derived string (method, mode, the
\* scheme without ':', the host without port, the path without query or
\* fragment), and a result's value for the field is the validator's output.
C22_SimpleFields ==
    \A i \in RequestRuns : \A field \in Range(SimpleFields) :
        (RunEnded(i) /\ schemas[field] # Undefined /\ FacetEvaluated(i, field)) =>
            /\ FailsOnFacet(i, field) <=> ~AloneSimple(i, field).ok
            /\ Succeeded(i) => runs[i].result.v[field] = AloneSimple(i, field).value

\* the declared method validator turns "POST" into "post" and the composite
\* validation is rejected by the result schema, which hands "post" to the
\* same validator
C22_Witness ==
    \E i \in RequestRuns :
        /\ Rejected(i)
        /\ schemas.method = ZodTransform(ZodLiteral("POST"), "toLowerCase")
        /\ RequestOf(i).method = "POST"
        /\ AloneSimple(i, "method") = Ok(Str("post"))
        /\ runs[i].simple.method = Str("post")
        /\ runs[i].error.name = "ZodError"
        /\ runs[i].error.issues[1].path = <<"method">>


-----------------------------------------------------------------------------
(* bodySchema on form bodies with repeated keys, file entries and keys the
   form shape does not declare *)

MaxEntries == 2

FormKeys == {"a", "b"}
FormValues == {Str("1"), Str("2"), File}

\* the entries of a multipart body that has some, in the order formData()
\* iterates them
RECURSIVE EntryListsOfLength(_)
EntryListsOfLength(n) ==
    IF n = 0 THEN {<<>>}
    ELSE {Append(entries, <<key, value>>) :
             entries \in EntryListsOfLength(n - 1), key \in FormKeys, value \in FormValues}
FormEntryLists == UNION {EntryListsOfLength(n) : n \in 1..MaxEntries}

\* form shapes: one that keeps every key of the field map, one that
\* declares "a" and drops the rest, one that declares "a" and keeps the rest
FormShapes ==
    {ZodLooseObject(<<>>),
     ZodObject(<<Entry("a", ZodOptional(ZodString))>>),
     ZodLooseObject(<<Entry("a", ZodOptional(ZodString))>>)}

FormRequests ==
    {MakeRequest(ExampleUrl, "POST", "cors", ContentTypeHeader(ct),
                 Payload("--b", Fail(SyntaxError), entries), host) :
        ct \in {"multipart/form-data; boundary=b", "multipart/form-data"},
        entries \in FormEntryLists, host \in Hosts}
    \cup
    {MakeRequest(ExampleUrl, "POST", "cors",
                 ContentTypeHeader("application/x-www-form-urlencoded"),
                 Payload(text, Fail(SyntaxError), "none"), host) :
        text \in {"", "a=1", "a=1&b=2", "a=1&b=2&a=3", "b=2&b="}, host \in Hosts}

InitForm ==
    /\ call = NoCall
    /\ ret = Pending
    /\ \E shape \in FormShapes :
          schemas = [NoSchemas EXCEPT !.body = bodySchema(Undefined, shape, Undefined)]
    /\ \E request \in FormRequests : requests = <<request>>
    /\ runs = <<NewRun("bodySchema", 1)>>

NextForm ==
    \/ \E i \in DOMAIN runs : BodyDispatch(i)
    \/ \E i \in DOMAIN runs : BodyFormUrlencoded(i)
    \/ \E i \in DOMAIN runs : BodyFormFallbackText(i)
    \/ \E i \in DOMAIN runs : BodyFormClone(i)
    \/ \E i \in DOMAIN runs : BodyFormOriginal(i)
    \/ \E i \in DOMAIN runs : BodyFormData(i)

SpecForm == InitForm /\ [][NextForm]_vars

\* the entries the form decode of the request iterates, in order
DecodedEntries(i) ==
    IF RequestOf(i).payload.multipart = "none"
    THEN LET entries == URLSearchParamsOf(SentText(i)).entries
         IN [n \in 1..Len(entries) |-> <<entries[n][1], Str(entries[n][2])>>]
    ELSE RequestOf(i).payload.multipart

\* a validation that ended with a body, by a form shape that keeps every key
\* of the field map it is handed: the body is that field map
FieldMapShown(i) ==
    /\ runs[i].bpc = "done"
    /\ schemas.body.formData = ZodLooseObject(<<>>)
FieldMap(i) == runs[i].bodyOut.v.body.v

LastEntry(entries, key) ==
    entries[CHOOSE n \in 1..Len(entries) :
                /\ entries[n][1] = key
                /\ \A m \in (n + 1)..Len(entries) : entries[m][1] # key]

\* C25: the field map built from a decoded form body has the keys of the
\* decoded entries, and gives each key the value of the last entry for it:
\* the string of a string entry, undefined for a file entry (so a later
\* file entry erases an earlier string); no key maps to an array.
C25_LastEntryWins ==
    \A i \in BodyRuns :
        FieldMapShown(i) =>
            LET entries == DecodedEntries(i)
            IN /\ DOMAIN FieldMap(i) = {entries[n][1] : n \in 1..Len(entries)}
               /\ \A key \in DOMAIN FieldMap(i) :
                     /\ FieldMap(i)[key].t \in {"string", "undefined"}
                     /\ FieldMap(i)[key] =
                           IF LastEntry(entries, key)[2].t = "string"
                           THEN LastEntry(entries, key)[2] ELSE Undefined

C25_Witness ==
    \E i \in BodyRuns :
        /\ FieldMapShown(i)
        /\ DecodedEntries(i) = <<<<"a", Str("1")>>, <<"a", File>>>>
        /\ FieldMap(i) = [a |-> Undefined]

\* C26: of the decoded entries of a form body only the keys that the form
\* shape declares are extracted: the field map handed to the shape's
\* validation, and so the validated body whatever the shape does with
\* undeclared keys, has no key outside the shape's key set.
C26_OnlyDeclaredKeys ==
    \A i \in BodyRuns :
        runs[i].bpc = "done" =>
            DOMAIN runs[i].bodyOut.v.body.v \subseteq ShapeKeys(schemas.body.formData.shape)

\* the shape declares "a" and keeps what else it is handed: the undeclared
\* key "b" of the body is in the field map and reaches the validated body
C26_Witness ==
    \E i \in BodyRuns :
        /\ runs[i].bpc = "done"
        /\ schemas.body.formData = ZodLooseObject(<<Entry("a", ZodOptional(ZodString))>>)
        /\ DecodedEntries(i) = <<<<"a", Str("1")>>, <<"b", Str("2")>>>>
        /\ runs[i].bodyOut.v.body = Obj([a |-> Str("1"), b |-> Str("2")])


-----------------------------------------------------------------------------
(* bodySchema with category shapes that carry a refinement, synchronous or
   asynchronous *)

\* the refinements a shape may carry: one that accepts the non-empty
\* strings and one that accepts nothing, each returning a boolean or a
\* promise of it
Refinements == {[check |-> check, async |-> async] :
                   check \in {"nonEmpty", "never"}, async \in BOOLEAN}

RefinedString(refinement) == ZodRefine(ZodString, refinement.check, refinement.async)

RefinedBodySchemas ==
    {bodySchema(ZodObject(<<Entry("type", RefinedString(refinement))>>),
                ZodObject(<<Entry("type", RefinedString(refinement))>>),
                RefinedString(refinement)) : refinement \in Refinements}

RefinedRequests ==
    {MakeRequest(ExampleUrl, "POST", "cors", ContentTypeHeader(ct), payload,
                 Host(FALSE, FALSE, FALSE)) :
        ct \in {"application/json", "application/x-www-form-urlencoded", "text/plain"},
        payload \in {Payload("{\"type\":\"json\"}", Ok(Obj([type |-> Str("json")])), "none"),
                     Payload("{\"type\":\"\"}", Ok(Obj([type |-> Str("")])), "none"),
                     Payload("{}", Ok(Obj(EmptyRecord)), "none"),
                     Payload("type=form", Fail(SyntaxError), "none"),
                     Payload("type=", Fail(SyntaxError), "none"),
                     Payload("", Fail(SyntaxError), "none")}}

InitRefined ==
    /\ call = NoCall
    /\ ret = Pending
    /\ \E b \in RefinedBodySchemas : schemas = [NoSchemas EXCEPT !.body = b]
    /\ \E request \in RefinedRequests : requests = <<request>>
    /\ runs = <<NewRun("bodySchema", 1)>>

NextRefined ==
    \/ \E i \in DOMAIN runs : BodyDispatch(i)
    \/ \E i \in DOMAIN runs : BodyJson(i)
    \/ \E i \in DOMAIN runs : BodyFormUrlencoded(i)
    \/ \E i \in DOMAIN runs : BodyText(i)

SpecRefined == InitRefined /\ [][NextRefined]_vars

\* the category whose branch the validation took, and the value its decode
\* handed to the category's shape
BranchTaken(i) == BodyBranch(schemas.body, ContentTypeOf(i))
DecodedValue(i) ==
    CASE BranchTaken(i) = "json" -> JsonOf(RequestOf(i)).value
      [] BranchTaken(i) = "formData" -> LastValuesOfText(SentText(i))
      [] BranchTaken(i) = "text" -> Str(SentText(i))

HasAsyncRule(i) == ZodAsyncReached(schemas.body[BranchTaken(i)], DecodedValue(i))

\* C27: when the shape of the category a body validation takes carries an
\* asynchronous rule, parseAsync awaits the rule and the validation
\* succeeds or fails as the rule decides: with { body } holding the
\* validated value when the rule accepts it, with the rule's issue when not.
C27_AsyncRuleAwaited ==
    \A i \in BodyRuns :
        (Finished(i) /\ "parse:" \o BranchTaken(i) \in Range(runs[i].log) /\ HasAsyncRule(i)) =>
            LET parsed == ZodParse(schemas.body[BranchTaken(i)], DecodedValue(i))
            IN IF parsed.ok
               THEN runs[i].bpc = "done" /\ runs[i].bodyOut = Obj([body |-> parsed.value])
               ELSE runs[i].bpc = "failed" /\ runs[i].error = parsed.error

\* the rule would accept "json"; the validation fails with the error of a
\* promise met by a synchronous parse
C27_Witness ==
    \E i \in BodyRuns :
        /\ Finished(i)
        /\ BranchTaken(i) = "json"
        /\ JsonOf(RequestOf(i)).ok
        /\ schemas.body.json = ZodObject(<<Entry("type", ZodRefine(ZodString, "nonEmpty", TRUE))>>)
        /\ DecodedValue(i) = Obj([type |-> Str("json")])
        /\ ZodParse(schemas.body.json, DecodedValue(i)) = Ok(Obj([type |-> Str("json")]))
        /\ runs[i].log = <<"decode:json", "parse:json">>
        /\ runs[i].bpc = "failed"
        /\ runs[i].error = ZodAsyncError


-----------------------------------------------------------------------------
(* Rules that wrap an array rule *)

WrapsArray(fieldSchema) ==
    /\ fieldSchema # Undefined
    /\ fieldSchema.type \in {"optional", "nullable"}
    /\ fieldSchema.innerType.type = "array"

\* the loop of extractSearchParamsObject stops at entry n of the shape
StopsAt(n) ==
    /\ call.shape[n].schema # Undefined
    /\ call.shape[n].schema.type # "array"
    /\ Len(AllValues(call.source, call.shape[n].key)) > 1

SearchParamsExtracted == call.fn = "extractSearchParamsObject" /\ ret # Pending

\* C28: a rule that wraps an array rule (optional array, nullable array) is
\* not an array rule for isArraySchema, and extractSearchParamsObject gives
\* its field the scalar law: with more than one value the extraction fails,
\* with that field's cardinality error unless an earlier field stopped it,
\* and with exactly one value the field is the bare string, not an array.
C28_WrappedArrayIsScalar ==
    SearchParamsExtracted =>
        \A n \in 1..Len(call.shape) :
            WrapsArray(call.shape[n].schema) =>
                LET key == call.shape[n].key
                    allValues == AllValues(call.source, key)
                IN /\ ~isArraySchema(call.shape[n].schema)
                   /\ Len(allValues) > 1 =>
                         /\ ~ret.ok
                         /\ (\A m \in 1..(n - 1) : ~StopsAt(m)) =>
                                ret.error = MultipleValuesError(key)
                   /\ (Len(allValues) = 1 /\ ret.ok) =>
                         /\ key \in DOMAIN ret.value
                         /\ ret.value[key] = Str(allValues[1])
                         /\ ret.value[key] # Arr(allValues)

\* ?tag=a&tag=b against { tag: z.array(z.string()).nullable() } has failed
\* with the cardinality error of tag
C28_Witness ==
    /\ SearchParamsExtracted
    /\ call.shape = <<Entry("tag", ZodNullable(ZodArray))>>
    /\ call.source = [kind |-> "URLSearchParams", entries |-> <<<<"tag", "a">>, <<"tag", "b">>>>]
    /\ ret = Fail(MultipleValuesError("tag"))


-----------------------------------------------------------------------------
(* What a rejected composite validation leaves of the request's body,
   checked under Spec *)

LaterFacets == {"headers", "method", "mode", "protocol", "hostname", "pathname"}

\* the body step has succeeded and a facet evaluated after it has rejected
FailsAfterBody(i) ==
    /\ Rejected(i)
    /\ schemas.body # Undefined
    /\ runs[i].bpc = "done"
    /\ FacetEvents(i)[Len(FacetEvents(i))] \in {"facet:" \o f : f \in LaterFacets}

Drained(request) == request.body # Null /\ BodyUsed(request)

\* the decodes of the body step, in order
DecodeEvents(i) ==
    LET IsDecode(e) == StringStartsWith(e, "decode:")
    IN SelectSeq(runs[i].log, IsDecode)

\* the decode that gave the body step its value read the request itself,
\* not a clone of it
DecodedFromRequest(i) ==
    /\ DecodeEvents(i) # <<>>
    /\ DecodeEvents(i)[Len(DecodeEvents(i))] \in {"decode:json", "decode:formData", "decode:text"}

\* C29 (as stated): when a composite validation with a declared body facet
\* is rejected by a facet evaluated after the body, there is no result and
\* the request's body stream has been consumed by the body step.
C29_DrainedOnLaterFailure ==
    \A i \in RequestRuns :
        FailsAfterBody(i) => runs[i].result = Undefined /\ Drained(RequestOf(i))

\* C29 (amended): when a composite validation with a declared body facet is
\* rejected by a facet evaluated after the body, there is no result, and
\* the request is left with a drained body exactly when the body step took
\* its value from a decode of the request itself; a body step that decoded
\* nothing, or that decoded a clone, leaves the request's body readable.
\* A drained stream is never restored: the request still holds the stream
\* it started with.
C29_DrainedWhenDecodedFromRequest ==
    \A i \in RequestRuns :
        FailsAfterBody(i) =>
            /\ runs[i].result = Undefined
            /\ Drained(RequestOf(i)) <=> DecodedFromRequest(i)
            /\ Drained(RequestOf(i)) => RequestOf(i).body = InitialBody(RequestOf(i))

\* the JSON body was decoded and accepted, then the method was rejected
C29_Witness ==
    \E i \in RequestRuns :
        /\ FailsAfterBody(i)
        /\ DecodeEvents(i) = <<"decode:json">>
        /\ runs[i].bodyValue = Obj([type |-> Str("json")])
        /\ FacetEvents(i)[Len(FacetEvents(i))] = "facet:method"
        /\ runs[i].result = Undefined
        /\ RequestOf(i).disturbed = {Stream(1)}
        /\ RequestOf(i).body = Stream(1)


-----------------------------------------------------------------------------
(* The same request validated a second time: the second validation starts
   when the first has settled *)

InitAgain ==
    /\ call = NoCall
    /\ ret = Pending
    /\ \E b \in ConfigBodies : schemas = [NoSchemas EXCEPT !.body = b]
    /\ \E plan \in RequestPlans : requests = <<RequestOfPlan(plan)>>
    /\ runs = <<NewRun("bodySchema", 1), NewRun("bodySchema", 1)>>

\* a validation starts when the one before it has settled
InOrder(i) == i > 1 => Finished(i - 1)

NextAgain ==
    \/ \E i \in DOMAIN runs : InOrder(i) /\ BodyDispatch(i)
    \/ \E i \in DOMAIN runs : InOrder(i) /\ BodyJson(i)
    \/ \E i \in DOMAIN runs : InOrder(i) /\ BodyFormUrlencoded(i)
    \/ \E i \in DOMAIN runs : InOrder(i) /\ BodyFormFallbackText(i)
    \/ \E i \in DOMAIN runs : InOrder(i) /\ BodyFormClone(i)
    \/ \E i \in DOMAIN runs : InOrder(i) /\ BodyFormOriginal(i)
    \/ \E i \in DOMAIN runs : InOrder(i) /\ BodyFormData(i)
    \/ \E i \in DOMAIN runs : InOrder(i) /\ BodyText(i)

SpecAgain == InitAgain /\ [][NextAgain]_vars

\* the validation's branch matched and its decode succeeded: the decoded
\* value was handed to the category's shape
Decoded(i) ==
    /\ Finished(i)
    /\ DecodeEvents(i) # <<>>
    /\ \E category \in {"json", "formData", "text"} :
          "parse:" \o category \in Range(runs[i].log)

MissingBodyOrMismatch(error) ==
    \/ StringStartsWith(error.message, "Request body is required")
    \/ StringStartsWith(error.message, "Content-Type mismatch")

\* the validation passed the presence check, tried to decode the request and
\* failed on the consumed stream
FailsOnSecondDecode(i) ==
    /\ runs[i].bpc = "failed"
    /\ DecodeEvents(i) # <<>>
    /\ runs[i].error = BodyUnusable
    /\ ~MissingBodyOrMismatch(runs[i].error)
    /\ ~\E category \in {"json", "formData", "text"} :
          "parse:" \o category \in Range(runs[i].log)

\* C30 (as stated): once a body validation of a request has decoded its
\* body, a later validation of the same request by a validator whose branch
\* matches again fails on its decode of the consumed stream, never with a
\* missing-body or Content-Type mismatch error.
C30_SecondValidationFails ==
    (Decoded(1) /\ Finished(2)) => FailsOnSecondDecode(2)

\* C30 (amended): once a body validation has decoded the body from the
\* request itself, a later validation of the same request whose branch
\* matches again fails on its decode of the consumed stream, never with a
\* missing-body or Content-Type mismatch error; when the first validation
\* took its value from a clone, the request's own stream is unread and the
\* later validation ends as the first did.
C30_SecondValidationFailsAfterOwnDecode ==
    (Decoded(1) /\ Finished(2)) =>
        IF DecodedFromRequest(1)
        THEN RequestOf(2).body # Null /\ FailsOnSecondDecode(2)
        ELSE /\ runs[2].bpc = runs[1].bpc
             /\ runs[2].bodyOut = runs[1].bodyOut
             /\ runs[2].error = runs[1].error

\* the JSON body was validated once; the second validation of the request
\* tried to decode it and failed
C30_Witness ==
    /\ runs[1].bpc = "done"
    /\ runs[1].log = <<"decode:json", "parse:json">>
    /\ runs[1].bodyOut = Obj([body |-> Obj([type |-> Str("json")])])
    /\ runs[2].log = <<"decode:json">>
    /\ runs[2].bpc = "failed"
    /\ runs[2].error = BodyUnusable
    /\ requests[1].body = Stream(1)

====
